---- MODULE Spec2Model ----
(***************************************************************************)
(* Model of the profile store of buteo-syncfw                              *)
(* (src/libsyncprofile/ProfileManager.cpp): the two-root file layout, the  *)
(* backup-aware load and save, remove, rename, the sync log store and the  *)
(* search predicates.                                                      *)
(***************************************************************************)
EXTENDS Integers, Sequences, FiniteSets, TLC

VARIABLES fs, op, ret, nops

vars == <<fs, op, ret, nops>>

(***************************************************************************)
(* Names, types and file paths.  Names and types are drawn from the same   *)
(* strings, so that <type>/<name>.xml and <name>/<type>.xml are both paths *)
(* of the store.                                                           *)
(***************************************************************************)
TYPE_SYNC == "sync"

Names == {"sync", "a"}

Types == {"sync", "a"}

FORMAT_EXT == ".xml"

BACKUP_EXT == ".bak"

LOG_EXT == ".log"

Roots == {"primary", "secondary"}

\* <root>/<type>/<name>.xml
ProfilePath(root, type, name) == <<root, type, name, FORMAT_EXT>>

\* path + ".bak"
BackupPath(path) == <<path[1], path[2], path[3], path[4] \o BACKUP_EXT>>

\* <primary>/<type>/logs/<name>.log.xml
LogPath(type, name) == <<"primary", type, name, LOG_EXT \o FORMAT_EXT>>

Paths ==
    (Roots \X Types \X Names \X {FORMAT_EXT, FORMAT_EXT \o BACKUP_EXT})
        \cup ({"primary"} \X Types \X Names \X {LOG_EXT \o FORMAT_EXT})

(***************************************************************************)
(* File contents.  A file is absent, holds a truncated (unparseable)       *)
(* document, or holds a complete XML document.                             *)
(***************************************************************************)
NoFile == [kind |-> "none"]

Partial == [kind |-> "partial"]

NullProfile == [kind |-> "null"]

NullKey == "<null>"

KeyNames == {"protected", "hidden", "k"}

NoKeys == [k \in KeyNames |-> NullKey]

\* QFile::exists
Exists(f, path) == path \in DOMAIN f /\ f[path] # NoFile

\* QFile::remove: deletes the file when it exists
QRemove(f, path) == IF Exists(f, path) THEN [f EXCEPT ![path] = NoFile] ELSE f

\* QFile::copy: fails when the source is missing or the destination exists
QCopyOk(f, src, dst) == Exists(f, src) /\ dst \in DOMAIN f /\ ~Exists(f, dst)

QCopy(f, src, dst) == IF QCopyOk(f, src, dst) THEN [f EXCEPT ![dst] = f[src]] ELSE f

\* QFile::rename: fails when the source is missing or the destination exists
QRenameOk(f, src, dst) == Exists(f, src) /\ dst \in DOMAIN f /\ ~Exists(f, dst)

QRename(f, src, dst) ==
    IF QRenameOk(f, src, dst)
    THEN [f EXCEPT ![dst] = f[src], ![src] = NoFile]
    ELSE f

(***************************************************************************)
(* Document codec and profile factory.  A document holds the profile's     *)
(* name, type, keys and nested sub-profile elements; the in-memory profile *)
(* adds the loaded flag, which is never written to disk.                   *)
(***************************************************************************)
RECURSIVE createProfile(_)
\* ProfileFactory::createProfile / Profile(const QDomElement&)
createProfile(doc) ==
    [kind |-> "profile", name |-> doc.name, type |-> doc.type, keys |-> doc.keys,
     subs |-> [i \in DOMAIN doc.subs |-> createProfile(doc.subs[i])],
     loaded |-> FALSE]

RECURSIVE toXml(_)
\* Profile::toXml
toXml(p) ==
    [kind |-> "doc", name |-> p.name, type |-> p.type, keys |-> p.keys,
     subs |-> [i \in DOMAIN p.subs |-> toXml(p.subs[i])]]

\* Profile::isProtected
isProtected(p) == p.keys["protected"] = "true"

\* Profile::isHidden
isHidden(p) == p.keys["hidden"] = "true"

\* ProfileManagerPrivate::parseFile
parseFile(f, path) == Exists(f, path) /\ f[path].kind = "doc"

\* findProfileFile with the two roots tried in the other order
findProfileFile_SecondaryFirst(f, aName, aType) ==
    LET primaryPath == ProfilePath("primary", aType, aName)
        secondaryPath == ProfilePath("secondary", aType, aName)
    IN  IF Exists(f, secondaryPath) THEN secondaryPath ELSE primaryPath

\* ProfileManagerPrivate::findProfileFile(aName, aType)
findProfileFile(f, aName, aType) ==
    LET primaryPath == ProfilePath("primary", aType, aName)
        secondaryPath == ProfilePath("secondary", aType, aName)
    IN  IF Exists(f, primaryPath) THEN primaryPath
        ELSE IF ~Exists(f, secondaryPath) THEN primaryPath
        ELSE secondaryPath

\* restoreBackupIfFound, up to and including QFile::remove(aProfilePath)
\* (or the removal of an unparseable backup)
restoreRemove(f, profilePath, backupPath) ==
    IF Exists(f, backupPath)
    THEN IF parseFile(f, backupPath)
         THEN QRemove(f, profilePath)
         ELSE QRemove(f, backupPath)
    ELSE f

\* restoreBackupIfFound: QFile::copy(aBackupPath, aProfilePath)
restoreCopy(f, profilePath, backupPath) ==
    IF Exists(f, backupPath) /\ parseFile(f, backupPath)
    THEN QCopy(f, backupPath, profilePath)
    ELSE f

\* ProfileManagerPrivate::restoreBackupIfFound
restoreBackupIfFound(f, profilePath, backupPath) ==
    restoreCopy(restoreRemove(f, profilePath, backupPath), profilePath, backupPath)

\* load that leaves the backup in place after a successful parse
loadRead_KeepBackup(f, profilePath, backupPath) ==
    IF parseFile(f, profilePath)
    THEN [fs |-> f, profile |-> createProfile(f[profilePath])]
    ELSE [fs |-> f, profile |-> NullProfile]

\* ProfileManagerPrivate::load after restoreBackupIfFound: parse the profile
\* file and, on success, remove the backup
loadRead(f, profilePath, backupPath) ==
    IF parseFile(f, profilePath)
    THEN [fs |-> QRemove(f, backupPath), profile |-> createProfile(f[profilePath])]
    ELSE [fs |-> f, profile |-> NullProfile]

\* ProfileManagerPrivate::load
load(f, aName, aType) ==
    LET profilePath == findProfileFile(f, aName, aType)
        backupProfilePath == BackupPath(profilePath)
    IN  loadRead(restoreBackupIfFound(f, profilePath, backupProfilePath),
                 profilePath, backupProfilePath)

(***************************************************************************)
(* save, step by step.                                                     *)
(***************************************************************************)
\* the path save writes to
savePath(p) == ProfilePath("primary", p.type, p.name)

\* the file save looks for to back up: findProfileFile(aProfile.type(), aProfile.name())
saveOldProfilePath(f, p) == findProfileFile(f, p.type, p.name)

\* ProfileManagerPrivate::createBackup
createBackup(f, profilePath, backupPath) == QCopy(f, profilePath, backupPath)

\* save: the backup of the existing profile file
saveBackup(f, p) ==
    LET oldProfilePath == saveOldProfilePath(f, p)
        backupPath == BackupPath(savePath(p))
    IN  IF Exists(f, oldProfilePath)
        THEN createBackup(f, oldProfilePath, backupPath)
        ELSE f

\* writeProfileFile: file.open(WriteOnly | Truncate) leaves an empty file
writeOpen(f, profilePath) == [f EXCEPT ![profilePath] = Partial]

\* writeProfileFile: the stream is written and the file closed
writeClose(f, profilePath, doc) == [f EXCEPT ![profilePath] = doc]

\* save that leaves the backup behind after a successful write
saveRemoveBackup_Keep(f, p) == f

\* save: QFile::remove(backupPath) after a successful write
saveRemoveBackup(f, p) == QRemove(f, BackupPath(savePath(p)))

\* ProfileManager::save as one call; openOk is the outcome of
\* file.open(WriteOnly | Truncate) in writeProfileFile
save(f, p, openOk) ==
    IF openOk
    THEN [fs |-> saveRemoveBackup(writeClose(writeOpen(saveBackup(f, p), savePath(p)),
                                             savePath(p), toXml(p)), p),
          result |-> TRUE]
    ELSE [fs |-> saveBackup(f, p), result |-> FALSE]

(***************************************************************************)
(* Log store.                                                              *)
(***************************************************************************)
NullLog == [kind |-> "null"]

\* SyncLog::SyncLog(aProfileName): an empty log carrying only the profile name
newSyncLog(aProfileName) == [kind |-> "log", profileName |-> aProfileName, results |-> <<>>]

\* SyncLog::addResults
addResults(log, r) == [log EXCEPT !.results = Append(@, r)]

\* ProfileManagerPrivate::loadLog
loadLog(f, aProfileName) ==
    LET fileName == LogPath(TYPE_SYNC, aProfileName)
    IN  IF ~Exists(f, fileName) THEN NullLog
        ELSE IF f[fileName].kind # "log" THEN NullLog
        ELSE f[fileName]

\* ProfileManager::saveLog; openOk is the outcome of file.open(WriteOnly | Truncate)
saveLog(f, log, openOk) ==
    LET file == LogPath(TYPE_SYNC, log.profileName)
    IN  IF ~openOk THEN [fs |-> f, result |-> FALSE]
        ELSE [fs |-> [f EXCEPT ![file] = log], result |-> TRUE]

\* ProfileManager::saveSyncResults; readOk is the outcome of file.open(ReadOnly)
\* in loadLog, openOk the outcome of file.open(WriteOnly | Truncate) in saveLog
saveSyncResults(f, aProfileName, aResults, readOk, openOk) ==
    LET found == IF readOk THEN loadLog(f, aProfileName) ELSE NullLog
        log == IF found = NullLog THEN newSyncLog(aProfileName) ELSE found
    IN  saveLog(f, addResults(log, aResults), openOk)

(***************************************************************************)
(* remove and rename.                                                      *)
(***************************************************************************)
\* remove without the protection check
remove_Unchecked(f, aName, aType) ==
    LET filePath == ProfilePath("primary", aType, aName)
        logFilePath == LogPath(aType, aName)
        l == load(f, aName, aType)
        f1 == l.fs
    IN  IF l.profile # NullProfile /\ Exists(f1, filePath)
        THEN [fs |-> QRemove(QRemove(f1, filePath), logFilePath),
              result |-> Exists(f1, logFilePath)]
        ELSE [fs |-> f1, result |-> FALSE]

\* ProfileManager::remove
remove(f, aName, aType) ==
    LET filePath == ProfilePath("primary", aType, aName)
        logFilePath == LogPath(aType, aName)
        l == load(f, aName, aType)
        f1 == l.fs
        p == l.profile
    IN  IF p # NullProfile
        THEN IF ~isProtected(p)
             THEN IF Exists(f1, filePath)
                  THEN [fs |-> QRemove(QRemove(f1, filePath), logFilePath),
                        result |-> Exists(f1, logFilePath)]
                  ELSE [fs |-> f1, result |-> FALSE]
             ELSE [fs |-> f1, result |-> FALSE]
        ELSE [fs |-> f1, result |-> FALSE]

\* rename without the roll back of the profile rename
rename_NoRollback(f, aName, aNewName) ==
    LET source == ProfilePath("primary", TYPE_SYNC, aName)
        destination == ProfilePath("primary", TYPE_SYNC, aNewName)
        sourceLog == LogPath(TYPE_SYNC, aName)
        destinationLog == LogPath(TYPE_SYNC, aNewName)
        f1 == QRename(f, source, destination)
    IN  IF QRenameOk(f, source, destination)
        THEN [fs |-> QRename(f1, sourceLog, destinationLog),
              result |-> QRenameOk(f1, sourceLog, destinationLog)]
        ELSE [fs |-> f, result |-> FALSE]

\* ProfileManager::rename
rename(f, aName, aNewName) ==
    LET source == ProfilePath("primary", TYPE_SYNC, aName)
        destination == ProfilePath("primary", TYPE_SYNC, aNewName)
        sourceLog == LogPath(TYPE_SYNC, aName)
        destinationLog == LogPath(TYPE_SYNC, aNewName)
        f1 == QRename(f, source, destination)
    IN  IF QRenameOk(f, source, destination)
        THEN IF QRenameOk(f1, sourceLog, destinationLog)
             THEN [fs |-> QRename(f1, sourceLog, destinationLog), result |-> TRUE]
             ELSE [fs |-> QRename(f1, destination, source), result |-> FALSE]
        ELSE [fs |-> f, result |-> FALSE]

(***************************************************************************)
(* The profile tree in memory.  A node of the tree is addressed by the     *)
(* sequence of child indices that leads to it from the root.               *)
(***************************************************************************)
RECURSIVE NodeAt(_, _)
NodeAt(p, path) == IF path = <<>> THEN p ELSE NodeAt(p.subs[Head(path)], Tail(path))

RECURSIVE SetAt(_, _, _)
SetAt(p, path, node) ==
    IF path = <<>> THEN node
    ELSE [p EXCEPT !.subs[Head(path)] = SetAt(@, Tail(path), node)]

RECURSIVE ConcatAll(_)
ConcatAll(seqs) == IF seqs = <<>> THEN <<>> ELSE Head(seqs) \o ConcatAll(Tail(seqs))

RECURSIVE allSubProfilePaths(_)
\* Profile::allSubProfiles: every sub-profile of the tree, parents first
allSubProfilePaths(p) ==
    ConcatAll([i \in DOMAIN p.subs |->
        <<<<i>>>> \o [j \in DOMAIN allSubProfilePaths(p.subs[i]) |->
                        <<i>> \o allSubProfilePaths(p.subs[i])[j]]])

\* Profile::key: the value of the key, null when the profile has no such key
key(p, aKey) == IF aKey \in DOMAIN p.keys THEN p.keys[aKey] ELSE NullKey

\* Profile::subProfileNames(aType): the names of the sub-profiles of the type
subProfileNames(p, aType) ==
    LET matching == SelectSeq(p.subs, LAMBDA q : q.type = aType)
    IN  [i \in DOMAIN matching |-> matching[i].name]

\* Profile::subProfile(aName, aType): the first sub-profile with the name
\* and type, null when there is none
subProfile(p, aName, aType) ==
    LET matching == SelectSeq(p.subs, LAMBDA q : q.name = aName /\ q.type = aType)
    IN  IF matching = <<>> THEN NullProfile ELSE Head(matching)

RECURSIVE overlay(_, _)
\* the overlay of an external profile onto a node: its keys replace the
\* node's, its sub-profiles are overlaid onto the node's sub-profile of the
\* same name and type or appended when the node has none
overlay(node, external) ==
    LET withKeys == [node EXCEPT !.keys =
                        [k \in DOMAIN node.keys |->
                            IF external.keys[k] # NullKey THEN external.keys[k]
                            ELSE node.keys[k]]]
        Add[i \in 0..Len(external.subs)] ==
            IF i = 0 THEN withKeys
            ELSE LET sofar == Add[i - 1]
                     sub == external.subs[i]
                     at == {j \in DOMAIN sofar.subs :
                               sofar.subs[j].name = sub.name /\ sofar.subs[j].type = sub.type}
                 IN  IF at = {}
                     THEN [sofar EXCEPT !.subs = Append(@, sub)]
                     ELSE LET j == CHOOSE x \in at : \A y \in at : x <= y
                          IN  [sofar EXCEPT !.subs[j] = overlay(@, sub)]
    IN  Add[Len(external.subs)]

\* Profile::merge: the external profile is overlaid onto the first
\* sub-profile of the tree with its name and type
merge(root, external) ==
    LET paths == allSubProfilePaths(root)
        hits == SelectSeq(paths, LAMBDA path :
                    NodeAt(root, path).name = external.name
                        /\ NodeAt(root, path).type = external.type)
    IN  IF hits = <<>> THEN root
        ELSE SetAt(root, Head(hits), overlay(NodeAt(root, Head(hits)), external))

(***************************************************************************)
(* expand, syncProfile and the listing of the sync profiles.               *)
(***************************************************************************)
\* the body of the foreach without the merge of the loaded profile
expandSub_NoMerge(f, root, path) ==
    LET sub == NodeAt(root, path)
    IN  IF ~sub.loaded
        THEN [fs |-> load(f, sub.name, sub.type).fs,
              profile |-> SetAt(root, path, [sub EXCEPT !.loaded = TRUE])]
        ELSE [fs |-> f, profile |-> root]

\* expand, lines 747-766: the body of the foreach for the sub-profile at path
expandSub(f, root, path) ==
    LET sub == NodeAt(root, path)
        \* sub->setLoaded(true)
        marked(merged) ==
            SetAt(merged, path, [NodeAt(merged, path) EXCEPT !.loaded = TRUE])
    IN  IF ~sub.loaded
        THEN \* l is the outcome of profile(sub->name(), sub->type())
             CHOOSE done \in
                 {[fs |-> l.fs,
                   profile |-> marked(IF l.profile # NullProfile
                                      THEN merge(root, l.profile)
                                      ELSE root)] :
                     l \in {load(f, sub.name, sub.type)}} : TRUE
        ELSE [fs |-> f, profile |-> root]

RECURSIVE expandEach(_, _, _)
\* expand, lines 745-766: one pass over the sub-profiles listed before it
expandEach(f, root, paths) ==
    IF paths = <<>> THEN [fs |-> f, profile |-> root]
    ELSE \* the rest of the pass on the outcome of the first iteration
         CHOOSE done \in {expandEach(step.fs, step.profile, Tail(paths)) :
                            step \in {expandSub(f, root, Head(paths))}} : TRUE

RECURSIVE expandLoop(_, _, _)
\* expand, lines 743-773: passes are repeated while the sub-profile count grows
expandLoop(f, root, prevSubCount) ==
    LET subProfiles == allSubProfilePaths(root)
        subCount == Len(subProfiles)
        \* the next round, given the outcome of this pass
        again(pass) == expandLoop(pass.fs, pass.profile, subCount)
    IN  IF subCount > prevSubCount
        THEN again(expandEach(f, root, subProfiles))
        ELSE [fs |-> f, profile |-> root]

\* ProfileManager::expand
expand(f, aProfile) ==
    IF aProfile.loaded THEN [fs |-> f, profile |-> aProfile]
    ELSE LET setLoaded(done) ==
                 [fs |-> done.fs, profile |-> [done.profile EXCEPT !.loaded = TRUE]]
         IN  setLoaded(expandLoop(f, aProfile, 0))

\* expand without the return at once for a loaded profile
expandEnter_NoReturn(aProfile) ==
    [pc |-> "while", root |-> aProfile, prevSubCount |-> 0,
     subProfiles |-> allSubProfilePaths(aProfile),
     subCount |-> Len(allSubProfilePaths(aProfile))]

\* expand, lines 736-742: the locals of expand when the loop is reached, or
\* the return at once for a profile that is already loaded
expandEnter(aProfile) ==
    IF aProfile.loaded
    THEN [pc |-> "return", root |-> aProfile, prevSubCount |-> 0,
          subProfiles |-> <<>>, subCount |-> 0]
    ELSE [pc |-> "while", root |-> aProfile, prevSubCount |-> 0,
          subProfiles |-> allSubProfilePaths(aProfile),
          subCount |-> Len(allSubProfilePaths(aProfile))]

\* a round of the loop that takes the count after the round for prevSubCount,
\* so that the loop is left after one round
expandPass_Once(f, root, subProfiles, subCount) ==
    CHOOSE next \in
        {[fs |-> pass.fs, root |-> pass.profile,
          prevSubCount |-> Len(allSubProfilePaths(pass.profile)),
          subProfiles |-> allSubProfilePaths(pass.profile),
          subCount |-> Len(allSubProfilePaths(pass.profile))] :
            pass \in {expandEach(f, root, subProfiles)}} : TRUE

\* a round of the loop that never updates prevSubCount
expandPass_KeepPrev(f, root, subProfiles, subCount) ==
    CHOOSE next \in
        {[fs |-> pass.fs, root |-> pass.profile,
          prevSubCount |-> 0,
          subProfiles |-> allSubProfilePaths(pass.profile),
          subCount |-> Len(allSubProfilePaths(pass.profile))] :
            pass \in {expandEach(f, root, subProfiles)}} : TRUE

\* expand, lines 745-772: one round of the while loop, the foreach and the
\* update of prevSubCount, subProfiles and subCount
expandPass(f, root, subProfiles, subCount) ==
    CHOOSE next \in
        {[fs |-> pass.fs, root |-> pass.profile,
          prevSubCount |-> subCount,
          subProfiles |-> allSubProfilePaths(pass.profile),
          subCount |-> Len(allSubProfilePaths(pass.profile))] :
            pass \in {expandEach(f, root, subProfiles)}} : TRUE

\* syncProfile, lines 357-365: the log attached to the expanded profile;
\* openOk is the outcome of file.open(ReadOnly) in loadLog
attachLog(f, p, aName, openOk) ==
    LET found == IF openOk THEN loadLog(f, aName) ELSE NullLog
        log == IF found = NullLog THEN newSyncLog(aName) ELSE found
    IN  [kind |-> "profile", name |-> p.name, type |-> p.type, keys |-> p.keys,
         subs |-> p.subs, loaded |-> p.loaded, log |-> log]

\* ProfileManager::syncProfile; the returned profile carries its log
syncProfile(f, aName) ==
    LET \* the sync profile of the expanded profile e, with its log
        withLog(e) ==
            LET found == loadLog(e.fs, aName)
                log == IF found = NullLog THEN newSyncLog(aName) ELSE found
            IN  [fs |-> e.fs,
                 profile |-> [kind |-> "profile", name |-> e.profile.name,
                              type |-> e.profile.type, keys |-> e.profile.keys,
                              subs |-> e.profile.subs, loaded |-> e.profile.loaded,
                              log |-> log]]
        \* the result, given the outcome l of profile(aName, TYPE_SYNC)
        expanded(l) ==
            IF l.profile # NullProfile /\ l.profile.type = TYPE_SYNC
            THEN withLog(expand(l.fs, l.profile))
            ELSE [fs |-> l.fs, profile |-> NullProfile]
    IN  expanded(load(f, aName, TYPE_SYNC))

\* the order in which QDir::entryInfoList lists the files of a directory
NameOrder == <<"a", "sync">>

\* profileNames that appends every secondary name
profileNames_NoContainsTest(f, aType) ==
    LET primaryNames == SelectSeq(NameOrder,
                            LAMBDA n : Exists(f, ProfilePath("primary", aType, n)))
        secondaryNames == SelectSeq(NameOrder,
                            LAMBDA n : Exists(f, ProfilePath("secondary", aType, n)))
    IN  primaryNames \o secondaryNames

\* ProfileManager::profileNames
profileNames(f, aType) ==
    LET primaryNames == SelectSeq(NameOrder,
                            LAMBDA n : Exists(f, ProfilePath("primary", aType, n)))
        secondaryNames == SelectSeq(NameOrder,
                            LAMBDA n : Exists(f, ProfilePath("secondary", aType, n))
                                        /\ ~Exists(f, ProfilePath("primary", aType, n)))
    IN  primaryNames \o secondaryNames

RECURSIVE syncProfilesOf(_, _)
\* allSyncProfiles, lines 414-421
syncProfilesOf(f, names) ==
    IF names = <<>> THEN [fs |-> f, profiles |-> <<>>]
    ELSE LET \* profiles.append(p) for the outcome sp of syncProfile(name)
             append(sp, rest) ==
                 [fs |-> rest.fs,
                  profiles |-> IF sp.profile # NullProfile
                               THEN <<sp.profile>> \o rest.profiles
                               ELSE rest.profiles]
             listed(sp) == append(sp, syncProfilesOf(sp.fs, Tail(names)))
         IN  listed(syncProfile(f, Head(names)))

\* ProfileManager::allSyncProfiles
allSyncProfiles(f) == syncProfilesOf(f, profileNames(f, TYPE_SYNC))

(***************************************************************************)
(* Search.                                                                 *)
(***************************************************************************)
EQUAL == "EQUAL"

NOT_EQUAL == "NOT_EQUAL"

EXISTS == "EXISTS"

NOT_EXISTS == "NOT_EXISTS"

\* matchKey in which a missing key fails NOT_EQUAL
matchKey_AbsentFailsNotEqual(aProfile, aCriteria) ==
    IF aCriteria.iKey # ""
    THEN LET value == key(aProfile, aCriteria.iKey)
         IN  IF value = NullKey
             THEN aCriteria.iType = NOT_EXISTS
             ELSE CASE aCriteria.iType = EXISTS -> TRUE
                    [] aCriteria.iType = NOT_EXISTS -> FALSE
                    [] aCriteria.iType = EQUAL -> value = aCriteria.iValue
                    [] aCriteria.iType = NOT_EQUAL -> value # aCriteria.iValue
                    [] OTHER -> FALSE
    ELSE aCriteria.iType # NOT_EXISTS

\* ProfileManagerPrivate::matchKey
matchKey(aProfile, aCriteria) ==
    IF aCriteria.iKey # ""
    THEN LET value == key(aProfile, aCriteria.iKey)
         IN  IF value = NullKey
             THEN aCriteria.iType = NOT_EXISTS \/ aCriteria.iType = NOT_EQUAL
             ELSE CASE aCriteria.iType = EXISTS -> TRUE
                    [] aCriteria.iType = NOT_EXISTS -> FALSE
                    [] aCriteria.iType = EQUAL -> value = aCriteria.iValue
                    [] aCriteria.iType = NOT_EQUAL -> value # aCriteria.iValue
                    [] OTHER -> FALSE
    ELSE aCriteria.iType # NOT_EXISTS

RECURSIVE anyMatchKey(_, _, _)
\* matchProfile, lines 217-227: the first sub-profile found for each name
\* of the type is put to the key test
anyMatchKey(aProfile, subProfileNamesLeft, aCriteria) ==
    IF subProfileNamesLeft = <<>> THEN FALSE
    ELSE LET testProfile == subProfile(aProfile, Head(subProfileNamesLeft),
                                       aCriteria.iSubProfileType)
         IN  IF testProfile # NullProfile /\ matchKey(testProfile, aCriteria)
             THEN TRUE
             ELSE anyMatchKey(aProfile, Tail(subProfileNamesLeft), aCriteria)

\* ProfileManagerPrivate::matchProfile
matchProfile(aProfile, aCriteria) ==
    IF aCriteria.iSubProfileName # ""
    THEN LET testProfile == subProfile(aProfile, aCriteria.iSubProfileName,
                                       aCriteria.iSubProfileType)
         IN  IF testProfile # NullProfile
             THEN matchKey(testProfile, aCriteria)
             ELSE aCriteria.iType = NOT_EXISTS
    ELSE IF aCriteria.iSubProfileType # ""
    THEN LET names == subProfileNames(aProfile, aCriteria.iSubProfileType)
         IN  IF names # <<>>
             THEN anyMatchKey(aProfile, names, aCriteria)
             ELSE aCriteria.iType = NOT_EXISTS
    ELSE matchKey(aProfile, aCriteria)

RECURSIVE matchedAll(_, _)
\* getSyncProfilesByData, lines 518-525: the criteria are tried in order
\* until one fails
matchedAll(profile, aCriteria) ==
    IF aCriteria = <<>> THEN TRUE
    ELSE IF ~matchProfile(profile, Head(aCriteria)) THEN FALSE
    ELSE matchedAll(profile, Tail(aCriteria))

RECURSIVE matchingOf(_, _)
\* getSyncProfilesByData, lines 512-536
matchingOf(allProfiles, aCriteria) ==
    IF allProfiles = <<>> THEN <<>>
    ELSE IF matchedAll(Head(allProfiles), aCriteria)
    THEN <<Head(allProfiles)>> \o matchingOf(Tail(allProfiles), aCriteria)
    ELSE matchingOf(Tail(allProfiles), aCriteria)

\* getSyncProfilesByData that leaves the criteria loop after the first criterion
getSyncProfilesByData_FirstOnly(f, aCriteria) ==
    LET matching(all) ==
            [fs |-> all.fs,
             profiles |-> matchingOf(all.profiles,
                                     IF aCriteria = <<>> THEN <<>> ELSE <<Head(aCriteria)>>)]
    IN  matching(allSyncProfiles(f))

\* ProfileManager::getSyncProfilesByData(const QList<SearchCriteria>&)
getSyncProfilesByData(f, aCriteria) ==
    LET matching(all) == [fs |-> all.fs, profiles |-> matchingOf(all.profiles, aCriteria)]
    IN  matching(allSyncProfiles(f))

(***************************************************************************)
(* Search by storage.  The key names, the boolean literals and the         *)
(* sub-profile types are those of the reserved keys of the profile model.  *)
(***************************************************************************)
KEY_ENABLED == "enabled"

KEY_HIDDEN == "hidden"

KEY_DESTINATION_TYPE == "destinationType"

BOOLEAN_TRUE == "true"

BOOLEAN_FALSE == "false"

VALUE_ONLINE == "online"

TYPE_SERVICE == "service"

TYPE_STORAGE == "storage"

\* getSyncProfilesByStorage, lines 550-554
profileEnabled ==
    [iType |-> NOT_EQUAL, iSubProfileName |-> "", iSubProfileType |-> "",
     iKey |-> KEY_ENABLED, iValue |-> BOOLEAN_FALSE]

\* getSyncProfilesByStorage, lines 557-561
profileVisible ==
    [iType |-> NOT_EQUAL, iSubProfileName |-> "", iSubProfileType |-> "",
     iKey |-> KEY_HIDDEN, iValue |-> BOOLEAN_TRUE]

\* getSyncProfilesByStorage, lines 564-571
onlineService ==
    [iType |-> EQUAL, iSubProfileName |-> "", iSubProfileType |-> TYPE_SERVICE,
     iKey |-> KEY_DESTINATION_TYPE, iValue |-> VALUE_ONLINE]

\* getSyncProfilesByStorage, lines 574-590
storageSupported(aStorageName, aStorageMustBeEnabled) ==
    IF aStorageMustBeEnabled
    THEN [iType |-> EQUAL, iSubProfileName |-> aStorageName,
          iSubProfileType |-> TYPE_STORAGE, iKey |-> KEY_ENABLED, iValue |-> BOOLEAN_TRUE]
    ELSE [iType |-> EXISTS, iSubProfileName |-> aStorageName,
          iSubProfileType |-> TYPE_STORAGE, iKey |-> "", iValue |-> ""]

\* getSyncProfilesByStorage that never asks for the storage to be enabled
getSyncProfilesByStorage_ExistsOnly(f, aStorageName, aStorageMustBeEnabled) ==
    getSyncProfilesByData(f, <<profileEnabled, profileVisible, onlineService,
                               storageSupported(aStorageName, FALSE)>>)

\* ProfileManager::getSyncProfilesByStorage
getSyncProfilesByStorage(f, aStorageName, aStorageMustBeEnabled) ==
    getSyncProfilesByData(f, <<profileEnabled, profileVisible, onlineService,
                               storageSupported(aStorageName, aStorageMustBeEnabled)>>)

RECURSIVE visibleOf(_)
\* allVisibleSyncProfiles, lines 430-440
visibleOf(profiles) ==
    IF profiles = <<>> THEN <<>>
    ELSE IF ~isHidden(Head(profiles))
    THEN <<Head(profiles)>> \o visibleOf(Tail(profiles))
    ELSE visibleOf(Tail(profiles))

\* allVisibleSyncProfiles that keeps only the profiles carrying a hidden key
allVisibleSyncProfiles_NeedsKey(f) ==
    LET visible(all) ==
            [fs |-> all.fs,
             profiles |-> SelectSeq(all.profiles,
                              LAMBDA P : key(P, "hidden") \notin {NullKey, "true"})]
    IN  visible(allSyncProfiles(f))

\* ProfileManager::allVisibleSyncProfiles
allVisibleSyncProfiles(f) ==
    LET visible(all) == [fs |-> all.fs, profiles |-> visibleOf(all.profiles)]
    IN  visible(allSyncProfiles(f))

(***************************************************************************)
(* Inputs of the operations and the stores the manager is constructed on.  *)
(***************************************************************************)
MaxOps == 2

Results == {"r1", "r2"}

\* the profiles save is called with
SaveProfiles ==
    {[kind |-> "profile", name |-> n, type |-> t, keys |-> k, subs |-> <<>>,
      loaded |-> FALSE] :
        n \in Names, t \in Types,
        k \in {NoKeys, [NoKeys EXCEPT !["protected"] = "true"]}}
    \cup
    {[kind |-> "profile", name |-> "sync", type |-> TYPE_SYNC, keys |-> NoKeys,
      subs |-> <<[kind |-> "profile", name |-> "a", type |-> "a",
                  keys |-> [NoKeys EXCEPT !["k"] = "local"], subs |-> <<>>,
                  loaded |-> TRUE]>>,
      loaded |-> TRUE]}

\* a complete profile document of (name n, type t) whose key k tells where it
\* comes from
Doc(t, n, k, protected) ==
    [kind |-> "doc", name |-> n, type |-> t,
     keys |-> [NoKeys EXCEPT !["k"] = k, !["protected"] = protected],
     subs |-> <<>>]

\* a log file holding the given results
LogDoc(n, results) == [kind |-> "log", profileName |-> n, results |-> results]

\* the store with the given files; every other path is absent
Store(files) == [path \in Paths |-> IF path \in DOMAIN files THEN files[path] ELSE NoFile]

PSyncSync == ProfilePath("primary", TYPE_SYNC, "sync")

PSyncA == ProfilePath("primary", TYPE_SYNC, "a")

PASync == ProfilePath("primary", "a", "sync")

SSyncA == ProfilePath("secondary", TYPE_SYNC, "a")

\* stores left by a clean shutdown: user profiles, with or without a log
CleanStores ==
    {Store((PSyncSync :> zz) @@ (PSyncA :> xx) @@ (PASync :> yy)
            @@ (LogPath(TYPE_SYNC, "a") :> la)) :
        zz \in {NoFile, Doc(TYPE_SYNC, "sync", "old", NullKey)},
        xx \in {NoFile, Doc(TYPE_SYNC, "a", "old", NullKey), Doc(TYPE_SYNC, "a", "old", "true")},
        yy \in {NoFile, Doc("a", "sync", "old", NullKey)},
        la \in {NoFile, LogDoc("a", <<"r1">>)}}

\* stores with a system default for (a, sync), with or without a user
\* profile over it and with or without a backup file left next to the default
LayeredStores ==
    {Store((PSyncA :> xx) @@ (SSyncA :> Doc(TYPE_SYNC, "a", "system", NullKey))
            @@ (BackupPath(SSyncA) :> sb)) :
        xx \in {NoFile, Doc(TYPE_SYNC, "a", "old", NullKey)},
        sb \in {NoFile, Partial, Doc(TYPE_SYNC, "a", "stale", NullKey)}}

\* stores left by a process that stopped while it copied the backup
InterruptedStores ==
    {Store((PSyncA :> Doc(TYPE_SYNC, "a", "old", NullKey)) @@ (BackupPath(PSyncA) :> Partial))}

InitFiles == CleanStores \cup LayeredStores \cup InterruptedStores

Idle == [kind |-> "idle"]

NoRet == [op |-> "none"]

Init ==
    /\ fs \in InitFiles
    /\ op = Idle
    /\ ret = NoRet
    /\ nops = 0

(***************************************************************************)
(* Operations.  save and load are taken step by step, because the process  *)
(* may stop between two file operations; the others run to completion.     *)
(***************************************************************************)
\* save, lines 596-619: the document is built, the backup is attempted
SaveBegin(p) ==
    /\ op = Idle
    /\ nops < MaxOps
    /\ nops' = nops + 1
    /\ fs' = saveBackup(fs, p)
    /\ op' = [kind |-> "save", pc |-> "backup", profile |-> p,
              old |-> load(fs, p.name, p.type).profile,
              backedUp |-> Exists(fs, saveOldProfilePath(fs, p))
                             /\ QCopyOk(fs, saveOldProfilePath(fs, p), BackupPath(savePath(p)))]
    /\ ret' = NoRet

\* save, line 622 and writeProfileFile line 977: the file is opened for a
\* truncating write, or the open fails and save returns false
SaveOpen ==
    /\ nops' = nops
    /\ op.kind = "save" /\ op.pc = "backup"
    /\ \/ /\ fs' = writeOpen(fs, savePath(op.profile))
          /\ op' = [op EXCEPT !.pc = "open"]
          /\ ret' = ret
       \/ /\ fs' = fs
          /\ op' = Idle
          /\ ret' = [op |-> "save", profile |-> op.profile, old |-> op.old, result |-> FALSE]

\* writeProfileFile, lines 979-982: the document is written and the file closed
SaveWrite ==
    /\ nops' = nops
    /\ op.kind = "save" /\ op.pc = "open"
    /\ fs' = writeClose(fs, savePath(op.profile), toXml(op.profile))
    /\ op' = [op EXCEPT !.pc = "written"]
    /\ ret' = ret

\* save, lines 624-625: the backup is removed and save returns true
SaveEnd ==
    /\ nops' = nops
    /\ op.kind = "save" /\ op.pc = "written"
    /\ fs' = saveRemoveBackup(fs, op.profile)
    /\ op' = Idle
    /\ ret' = [op |-> "save", profile |-> op.profile, old |-> op.old, result |-> TRUE]

\* load, lines 124-130 and restoreBackupIfFound up to the removal
LoadBegin(aName, aType) ==
    /\ op = Idle
    /\ nops < MaxOps
    /\ nops' = nops + 1
    /\ LET profilePath == findProfileFile(fs, aName, aType)
       IN  /\ fs' = restoreRemove(fs, profilePath, BackupPath(profilePath))
           /\ op' = [kind |-> "load", pc |-> "removed", name |-> aName, type |-> aType,
                     path |-> profilePath]
    /\ ret' = NoRet

\* restoreBackupIfFound, line 1005
LoadCopy ==
    /\ nops' = nops
    /\ op.kind = "load" /\ op.pc = "removed"
    /\ fs' = restoreCopy(fs, op.path, BackupPath(op.path))
    /\ op' = [op EXCEPT !.pc = "restored"]
    /\ ret' = ret

\* load, lines 132-146
LoadEnd ==
    /\ nops' = nops
    /\ op.kind = "load" /\ op.pc = "restored"
    /\ LET l == loadRead(fs, op.path, BackupPath(op.path))
       IN  /\ fs' = l.fs
           /\ ret' = [op |-> "load", name |-> op.name, type |-> op.type, profile |-> l.profile]
    /\ op' = Idle

\* the process stops in the middle of a save or a load; the files stay as
\* they are and the next operation starts from them
Crash ==
    /\ nops' = nops
    /\ op # Idle
    /\ op' = Idle
    /\ ret' = [op |-> "crash", during |-> op]
    /\ fs' = fs

Remove(aName, aType) ==
    /\ op = Idle
    /\ nops < MaxOps
    /\ nops' = nops + 1
    /\ LET r == remove(fs, aName, aType)
       IN  /\ fs' = r.fs
           /\ ret' = [op |-> "remove", name |-> aName, type |-> aType, result |-> r.result]
    /\ op' = op

Rename(aName, aNewName) ==
    /\ op = Idle
    /\ nops < MaxOps
    /\ nops' = nops + 1
    /\ LET r == rename(fs, aName, aNewName)
       IN  /\ fs' = r.fs
           /\ ret' = [op |-> "rename", name |-> aName, newName |-> aNewName,
                      result |-> r.result]
    /\ op' = op

\* the log file, when there is one, can be opened for reading in this
\* specification; SpecLog has the read that fails
SaveSyncResults(aProfileName, aResults, openOk) ==
    /\ op = Idle
    /\ nops < MaxOps
    /\ nops' = nops + 1
    /\ LET r == saveSyncResults(fs, aProfileName, aResults, TRUE, openOk)
       IN  /\ fs' = r.fs
           /\ ret' = [op |-> "saveSyncResults", name |-> aProfileName, result |-> r.result]
    /\ op' = op

Next ==
    \/ \E p \in SaveProfiles : SaveBegin(p)
    \/ SaveOpen
    \/ SaveWrite
    \/ SaveEnd
    \/ \E n \in Names, t \in Types : LoadBegin(n, t)
    \/ LoadCopy
    \/ LoadEnd
    \/ Crash
    \/ \E n \in Names, t \in Types : Remove(n, t)
    \/ \E n \in Names, m \in Names : Rename(n, m)
    \/ \E n \in Names, r \in Results, ok \in BOOLEAN : SaveSyncResults(n, r, ok)

Spec == Init /\ [][Next]_vars

(***************************************************************************)
(* Helpers of the properties.                                              *)
(***************************************************************************)
\* what a complete file at path says, NullProfile for a missing or truncated file
Content(f, path) == IF parseFile(f, path) THEN createProfile(f[path]) ELSE NullProfile

\* the step just taken is a whole call of the operation named opname
IsStep(opname) == nops' = nops + 1 /\ ret'.op = opname

ProfilePaths == Roots \X Types \X Names \X {FORMAT_EXT}

SecondaryPaths == {"secondary"} \X Types \X Names \X {FORMAT_EXT, FORMAT_EXT \o BACKUP_EXT}

\* name, type, keys and sub-profile references of two profiles agree
RECURSIVE SameProfile(_, _)
SameProfile(p, q) ==
    /\ p.name = q.name /\ p.type = q.type /\ p.keys = q.keys
    /\ Len(p.subs) = Len(q.subs)
    /\ \A i \in DOMAIN p.subs : SameProfile(p.subs[i], q.subs[i])

(***************************************************************************)
(* C1: crash safety of save.  If save(P') over a persisted profile P stops *)
(* after the backup file was created and before the new file is completely *)
(* written, the next load of (name, type) returns P.                       *)
(***************************************************************************)
C1_CrashSafety ==
    (op.kind = "save" /\ op.pc \in {"backup", "open"} /\ op.backedUp
        /\ op.old # NullProfile)
    => load(fs, op.profile.name, op.profile.type).profile = op.old

(***************************************************************************)
(* C2: save atomicity.  At every point of save(P') over a persisted P at   *)
(* which the process may stop once the target file has been opened for     *)
(* writing, and after save has returned true, either the target holds the  *)
(* complete new document and no backup exists, or the backup exists and    *)
(* holds P's last known good content.                                      *)
(***************************************************************************)
C2_SaveAtomicity ==
    /\ (op.kind = "save" /\ op.pc \in {"open", "written"} /\ op.old # NullProfile) =>
          LET target == savePath(op.profile) IN
          \/ fs[target] = toXml(op.profile) /\ ~Exists(fs, BackupPath(target))
          \/ Exists(fs, BackupPath(target)) /\ Content(fs, BackupPath(target)) = op.old
    /\ (ret.op = "save" /\ ret.result = TRUE /\ ret.old # NullProfile) =>
          LET target == savePath(ret.profile) IN
          \/ fs[target] = toXml(ret.profile) /\ ~Exists(fs, BackupPath(target))
          \/ Exists(fs, BackupPath(target)) /\ Content(fs, BackupPath(target)) = ret.old

(***************************************************************************)
(* C3: round trip.  When save(P) has returned true, load(P.name, P.type)   *)
(* returns a profile with P's name, type, keys and sub-profile references, *)
(* whatever files existed for (P.name, P.type) before the save.            *)
(***************************************************************************)
C3_RoundTrip ==
    (ret.op = "save" /\ ret.result = TRUE) =>
        LET q == load(fs, ret.profile.name, ret.profile.type).profile
        IN  q # NullProfile /\ SameProfile(q, ret.profile)

\* a save over an older profile with different content has returned true
C3_Witness ==
    /\ ret.op = "save" /\ ret.result = TRUE
    /\ ret.old # NullProfile /\ ~SameProfile(ret.old, ret.profile)
    /\ Len(ret.profile.subs) > 0

(***************************************************************************)
(* C4: layered lookup.  For every (name, type) load returns the content of *)
(* the primary file when it exists, of the secondary file when only that   *)
(* one exists, and null when neither exists; the resolver returns the      *)
(* secondary path only in the second case.                                 *)
(***************************************************************************)
LayeredLookupAt(f, n, t) ==
    LET primaryPath == ProfilePath("primary", t, n)
        secondaryPath == ProfilePath("secondary", t, n)
        got == load(f, n, t).profile
        path == findProfileFile(f, n, t)
    IN  /\ Exists(f, primaryPath) => got = Content(f, primaryPath) /\ path = primaryPath
        /\ (~Exists(f, primaryPath) /\ Exists(f, secondaryPath))
              => got = Content(f, secondaryPath) /\ path = secondaryPath
        /\ (~Exists(f, primaryPath) /\ ~Exists(f, secondaryPath))
              => got = NullProfile /\ path = primaryPath

\* the claim as stated: whatever backup files exist
C4_LayeredLookup_Original ==
    op = Idle => \A n \in Names, t \in Types : LayeredLookupAt(fs, n, t)

\* C4 as amended: the layered lookup holds for every (name, type) with no
\* backup file next to the resolved path; a file that does not parse is
\* returned as null
C4_LayeredLookup ==
    op = Idle =>
        \A n \in Names, t \in Types :
            ~Exists(fs, BackupPath(findProfileFile(fs, n, t))) => LayeredLookupAt(fs, n, t)

\* a load of a profile present in both roots has returned the primary content
C4_Witness ==
    /\ ret.op = "load" /\ ret.profile # NullProfile
    /\ Exists(fs, ProfilePath("primary", ret.type, ret.name))
    /\ Exists(fs, ProfilePath("secondary", ret.type, ret.name))
    /\ ret.profile = Content(fs, ProfilePath("primary", ret.type, ret.name))
    /\ ret.profile # Content(fs, ProfilePath("secondary", ret.type, ret.name))

(***************************************************************************)
(* C5: the secondary root is read-only.  No operation creates, modifies or *)
(* deletes a file under the secondary root.                                *)
(***************************************************************************)
C5_SecondaryReadOnly == [][\A path \in SecondaryPaths : fs'[path] = fs[path]]_vars

(***************************************************************************)
(* C6: protection.  remove of a profile whose loaded content is protected  *)
(* returns false and leaves the profile file and its log file unchanged;   *)
(* a persisted protected profile stays in place unless a save overwrites   *)
(* it.                                                                     *)
(***************************************************************************)
\* the file at path holds a complete protected profile
ProtectedAt(f, path) == parseFile(f, path) /\ isProtected(createProfile(f[path]))

\* the step is a step of a save that writes to path
SaveStepOn(path) == op.kind = "save" /\ savePath(op.profile) = path

\* remove of a profile that loads as protected refuses; keepsContent says
\* what the profile file holds afterwards
RemoveRefusesProtected(keepsContent(_, _)) ==
    IsStep("remove") =>
        LET l == load(fs, ret'.name, ret'.type)
            path == findProfileFile(fs, ret'.name, ret'.type)
        IN  (l.profile # NullProfile /\ isProtected(l.profile)) =>
                /\ ret'.result = FALSE
                /\ keepsContent(path, l.profile)
                /\ fs'[LogPath(ret'.type, ret'.name)] = fs[LogPath(ret'.type, ret'.name)]

FileUnchanged(path, loaded) == Exists(fs', path) /\ fs'[path] = fs[path]

FileHoldsLoaded(path, loaded) == Content(fs', path) = loaded

\* the claim as stated
C6_Protection_Original ==
    [][/\ RemoveRefusesProtected(FileUnchanged)
       /\ \A path \in ProfilePaths :
             ProtectedAt(fs, path) => (fs'[path] = fs[path] \/ SaveStepOn(path))]_vars

\* C6 as amended: remove of a profile whose loaded content is protected
\* returns false, leaves the log file unchanged and the profile file in
\* place with the loaded content; a persisted protected profile with no
\* backup file next to it stays in place with its content through every
\* step that is not a save to it or a successful rename of it
C6_Protection ==
    [][/\ RemoveRefusesProtected(FileHoldsLoaded)
       /\ \A path \in ProfilePaths :
             (ProtectedAt(fs, path) /\ ~Exists(fs, BackupPath(path))) =>
                \/ fs'[path] = fs[path]
                \/ SaveStepOn(path)
                \/ /\ IsStep("rename") /\ ret'.result = TRUE
                   /\ path = ProfilePath("primary", TYPE_SYNC, ret'.name)]_vars

\* remove has refused a protected profile that is still on disk
C6_Witness ==
    /\ ret.op = "remove" /\ ret.result = FALSE
    /\ ProtectedAt(fs, ProfilePath("primary", ret.type, ret.name))

(***************************************************************************)
(* C7: remove returns true if and only if the primary profile file was     *)
(* deleted by the call, whether or not a log file exists; after a call     *)
(* that deleted the profile file neither it nor its log file exists.       *)
(***************************************************************************)
C7_RemoveResult ==
    [][IsStep("remove") =>
        LET filePath == ProfilePath("primary", ret'.type, ret'.name)
            deleted == Exists(fs, filePath) /\ ~Exists(fs', filePath)
        IN  /\ ret'.result = TRUE <=> deleted
            /\ deleted => ~Exists(fs', LogPath(ret'.type, ret'.name))]_vars

(***************************************************************************)
(* C8: rename rollback.  rename(a, b) returns true only if both the        *)
(* profile file and the log file were renamed; when it returns false the   *)
(* four files a.xml, b.xml, a.log.xml, b.log.xml are as before the call.   *)
(***************************************************************************)
C8_RenameRollback ==
    [][IsStep("rename") =>
        LET source == ProfilePath("primary", TYPE_SYNC, ret'.name)
            destination == ProfilePath("primary", TYPE_SYNC, ret'.newName)
            sourceLog == LogPath(TYPE_SYNC, ret'.name)
            destinationLog == LogPath(TYPE_SYNC, ret'.newName)
        IN  /\ ret'.result = TRUE =>
                /\ Exists(fs, source) /\ ~Exists(fs, destination)
                /\ fs'[destination] = fs[source] /\ ~Exists(fs', source)
                /\ Exists(fs, sourceLog) /\ ~Exists(fs, destinationLog)
                /\ fs'[destinationLog] = fs[sourceLog] /\ ~Exists(fs', sourceLog)
            /\ ret'.result = FALSE =>
                \A path \in {source, destination, sourceLog, destinationLog} :
                    fs'[path] = fs[path]]_vars

\* a rename whose log rename failed has returned false after moving the
\* profile file back
C8_Witness ==
    /\ ret.op = "rename" /\ ret.result = FALSE
    /\ Exists(fs, ProfilePath("primary", TYPE_SYNC, ret.name))
    /\ ~Exists(fs, ProfilePath("primary", TYPE_SYNC, ret.newName))
    /\ ~Exists(fs, LogPath(TYPE_SYNC, ret.name))

(***************************************************************************)
(* The search predicates on their own: matchProfile is applied to one      *)
(* profile and one criterion drawn from bounded sets.                      *)
(***************************************************************************)
MatchValues == {NullKey, "", "v", "w"}

\* sub-profiles with a name, a type and at most the key k
MatchSubProfiles ==
    {[kind |-> "profile", name |-> n, type |-> t, keys |-> [NoKeys EXCEPT !["k"] = v],
      subs |-> <<>>, loaded |-> TRUE] :
        n \in {"s1", "s2"}, t \in {"service", "storage"}, v \in MatchValues}

\* sequences of at most two sub-profiles, no two with the same name and type
MatchSubLists ==
    {<<>>} \cup {<<q>> : q \in MatchSubProfiles}
        \cup {qr \in MatchSubProfiles \X MatchSubProfiles :
                    qr[1].name # qr[2].name \/ qr[1].type # qr[2].type}

MatchProfiles ==
    {[kind |-> "profile", name |-> "p", type |-> TYPE_SYNC,
      keys |-> [NoKeys EXCEPT !["k"] = v], subs |-> subs, loaded |-> TRUE] :
        v \in {NullKey, "", "v"}, subs \in MatchSubLists}

MatchCriteria ==
    [iType : {EQUAL, NOT_EQUAL, EXISTS, NOT_EXISTS},
     iSubProfileName : {"", "s1"},
     iSubProfileType : {"", "service", "storage"},
     iKey : {"", "k", "hidden"},
     iValue : {"", "v"}]

InitMatch ==
    /\ fs = Store(<<>>)
    /\ op = Idle
    /\ ret = NoRet
    /\ nops = 0

MatchProfile(aProfile, aCriteria) ==
    /\ ret = NoRet
    /\ ret' = [op |-> "matchProfile", profile |-> aProfile, criteria |-> aCriteria,
               result |-> matchProfile(aProfile, aCriteria)]
    /\ UNCHANGED <<fs, op, nops>>

\* one probe in a behaviour
NextMatch ==
    /\ ret = NoRet
    /\ \E aProfile \in MatchProfiles, aCriteria \in MatchCriteria :
            MatchProfile(aProfile, aCriteria)

SpecMatch == InitMatch /\ [][NextMatch]_vars

(***************************************************************************)
(* C10: matchProfile equals the reference reduction of the criterion.      *)
(***************************************************************************)
\* the key test of the reduction
KeyTest(q, c) ==
    IF c.iKey = "" THEN c.iType # NOT_EXISTS
    ELSE IF key(q, c.iKey) = NullKey THEN c.iType \in {NOT_EXISTS, NOT_EQUAL}
    ELSE \/ c.iType = EXISTS
         \/ c.iType = EQUAL /\ key(q, c.iKey) = c.iValue
         \/ c.iType = NOT_EQUAL /\ key(q, c.iKey) # c.iValue

\* the reduction by the shape of the criterion
Reduction(P, c) ==
    LET named == {i \in DOMAIN P.subs :
                     P.subs[i].name = c.iSubProfileName /\ P.subs[i].type = c.iSubProfileType}
        typed == {i \in DOMAIN P.subs : P.subs[i].type = c.iSubProfileType}
    IN  IF c.iSubProfileName # ""
        THEN IF named = {} THEN c.iType = NOT_EXISTS
             ELSE \A i \in named : KeyTest(P.subs[i], c)
        ELSE IF c.iSubProfileType # ""
        THEN IF typed = {} THEN c.iType = NOT_EXISTS
             ELSE \E i \in typed : KeyTest(P.subs[i], c)
        ELSE KeyTest(P, c)

C10_MatchReduction ==
    ret.op = "matchProfile" => ret.result = Reduction(ret.profile, ret.criteria)

\* a criterion with only a sub-profile type has matched on the second of
\* two sub-profiles of the type, the first failing the key test
C10_Witness ==
    /\ ret.op = "matchProfile" /\ ret.result = TRUE
    /\ ret.criteria.iSubProfileName = "" /\ ret.criteria.iSubProfileType = "service"
    /\ ret.criteria.iType = EQUAL /\ ret.criteria.iKey = "k"
    /\ Len(ret.profile.subs) = 2
    /\ ~KeyTest(ret.profile.subs[1], ret.criteria)
    /\ ret.profile.subs[1].type = "service"

(***************************************************************************)
(* Search over the store: getSyncProfilesByData is called once on a store  *)
(* of sync profiles with keys and sub-profiles.                            *)
(***************************************************************************)
\* a sync profile document with the given k and hidden keys and sub-profiles
SyncDoc(n, k, hidden, subs) ==
    [kind |-> "doc", name |-> n, type |-> TYPE_SYNC,
     keys |-> [NoKeys EXCEPT !["k"] = k, !["hidden"] = hidden], subs |-> subs]

\* a reference to the sub-profile (a, a), with or without a key of its own
SubRef(k) ==
    [kind |-> "doc", name |-> "a", type |-> "a", keys |-> [NoKeys EXCEPT !["k"] = k],
     subs |-> <<>>]

SearchStores ==
    {Store((PSyncA :> xa) @@ (PSyncSync :> xs) @@ (SSyncA :> sa)
            @@ (ProfilePath("primary", "a", "a") :> aa)) :
        xa \in {NoFile, SyncDoc("a", "v", NullKey, <<>>), SyncDoc("a", NullKey, "true", <<>>),
                SyncDoc("a", "w", NullKey, <<SubRef(NullKey)>>)},
        xs \in {NoFile, SyncDoc("sync", "v", NullKey, <<SubRef("w")>>),
                SyncDoc("sync", "w", "true", <<>>)},
        sa \in {NoFile, SyncDoc("a", "v", NullKey, <<SubRef("v")>>)},
        aa \in {NoFile, Doc("a", "a", "v", NullKey)}}

Criterion(type, subName, subType, k, v) ==
    [iType |-> type, iSubProfileName |-> subName, iSubProfileType |-> subType,
     iKey |-> k, iValue |-> v]

SearchCriteria ==
    {Criterion(EQUAL, "", "", "k", "v"),
     Criterion(NOT_EQUAL, "", "", "hidden", "true"),
     Criterion(EXISTS, "a", "a", "", ""),
     Criterion(EQUAL, "", "a", "k", "v"),
     Criterion(NOT_EXISTS, "", "a", "", "")}

SearchCriteriaLists ==
    {<<>>} \cup {<<c>> : c \in SearchCriteria}
        \cup {<<c, d>> : c \in SearchCriteria, d \in SearchCriteria}

InitSearch ==
    /\ fs \in SearchStores \cup InitFiles
    /\ op = Idle
    /\ ret = NoRet
    /\ nops = 0

GetSyncProfilesByData(aCriteria) ==
    /\ ret = NoRet
    /\ \E r \in {getSyncProfilesByData(fs, aCriteria)}, all \in {allSyncProfiles(fs)} :
          /\ fs' = r.fs
          /\ ret' = [op |-> "getSyncProfilesByData", criteria |-> aCriteria,
                     profiles |-> r.profiles, all |-> all.profiles]
    /\ UNCHANGED <<op, nops>>

AllVisibleSyncProfiles ==
    /\ ret = NoRet
    /\ \E r \in {allVisibleSyncProfiles(fs)}, all \in {allSyncProfiles(fs)} :
          /\ fs' = r.fs
          /\ ret' = [op |-> "allVisibleSyncProfiles", profiles |-> r.profiles,
                     all |-> all.profiles]
    /\ UNCHANGED <<op, nops>>

\* one query in a behaviour
NextSearch ==
    /\ ret = NoRet
    /\ \/ \E aCriteria \in SearchCriteriaLists : GetSyncProfilesByData(aCriteria)
       \/ AllVisibleSyncProfiles

SpecSearch == InitSearch /\ [][NextSearch]_vars

(***************************************************************************)
(* C9: search AND semantics.  getSyncProfilesByData(C) is allSyncProfiles()*)
(* restricted to the profiles that every criterion of C matches, in the    *)
(* order of allSyncProfiles().                                             *)
(***************************************************************************)
C9_SearchAnd ==
    ret.op = "getSyncProfilesByData" =>
        ret.profiles =
            SelectSeq(ret.all, LAMBDA P :
                \A i \in DOMAIN ret.criteria : matchProfile(P, ret.criteria[i]))

\* two criteria were applied to two sync profiles, and one profile was kept
\* that passes both while the other fails the second criterion only
C9_Witness ==
    /\ ret.op = "getSyncProfilesByData"
    /\ Len(ret.criteria) = 2 /\ Len(ret.all) = 2 /\ Len(ret.profiles) = 1
    /\ \E i \in DOMAIN ret.all :
          /\ matchProfile(ret.all[i], ret.criteria[1])
          /\ ~matchProfile(ret.all[i], ret.criteria[2])

(***************************************************************************)
(* C12: hidden filtering.  allVisibleSyncProfiles() is allSyncProfiles()   *)
(* without the profiles whose hidden key is "true", in the same order; a   *)
(* profile without a hidden key is kept.                                   *)
(***************************************************************************)
C12_HiddenFiltering ==
    ret.op = "allVisibleSyncProfiles" =>
        ret.profiles = SelectSeq(ret.all, LAMBDA P : key(P, "hidden") # "true")

\* of two sync profiles the hidden one was dropped and the one without a
\* hidden key was kept
C12_Witness ==
    /\ ret.op = "allVisibleSyncProfiles"
    /\ Len(ret.all) = 2 /\ Len(ret.profiles) = 1
    /\ key(ret.profiles[1], "hidden") = NullKey
    /\ \E i \in DOMAIN ret.all : key(ret.all[i], "hidden") = "true"

(***************************************************************************)
(* Search by storage: getSyncProfilesByStorage is called once on a store   *)
(* of sync profiles with service and storage sub-profiles.                 *)
(***************************************************************************)
StorageNames == {"s", "t"}

\* a profile document with the keys of the storage search
StorageDoc(n, t, enabled, hidden, destinationType, subs) ==
    [kind |-> "doc", name |-> n, type |-> t,
     keys |-> [x \in {KEY_ENABLED, KEY_HIDDEN, KEY_DESTINATION_TYPE} |->
                  CASE x = KEY_ENABLED -> enabled
                    [] x = KEY_HIDDEN -> hidden
                    [] OTHER -> destinationType],
     subs |-> subs]

ServiceSub(n, destinationType) ==
    StorageDoc(n, TYPE_SERVICE, NullKey, NullKey, destinationType, <<>>)

StorageSub(n, enabled) == StorageDoc(n, TYPE_STORAGE, enabled, NullKey, NullKey, <<>>)

\* the service sub-profiles of a sync profile, of distinct names
ServiceSubLists ==
    {<<>>, <<ServiceSub("svc", VALUE_ONLINE)>>, <<ServiceSub("svc", "device")>>,
     <<ServiceSub("svc", NullKey)>>,
     <<ServiceSub("svc", "device"), ServiceSub("svc2", VALUE_ONLINE)>>}

\* the storage sub-profiles of a sync profile, of distinct names
StorageSubLists ==
    {<<>>} \cup {<<StorageSub("s", e)>> : e \in {NullKey, BOOLEAN_TRUE, BOOLEAN_FALSE}}
        \cup {<<StorageSub("t", BOOLEAN_TRUE), StorageSub("s", BOOLEAN_FALSE)>>}

StorageStores ==
    {Store((PSyncA :> xa) @@ (PSyncSync :> xs)) :
        xa \in {NoFile} \cup
              {StorageDoc("a", TYPE_SYNC, e, h, NullKey, services \o storages) :
                  e \in {NullKey, BOOLEAN_TRUE, BOOLEAN_FALSE},
                  h \in {NullKey, BOOLEAN_TRUE, BOOLEAN_FALSE},
                  services \in ServiceSubLists, storages \in StorageSubLists},
        xs \in {NoFile,
                StorageDoc("sync", TYPE_SYNC, NullKey, NullKey, NullKey,
                           <<StorageSub("s", BOOLEAN_TRUE), ServiceSub("svc", VALUE_ONLINE)>>),
                StorageDoc("sync", TYPE_SYNC, BOOLEAN_FALSE, NullKey, NullKey,
                           <<ServiceSub("svc", VALUE_ONLINE), StorageSub("s", BOOLEAN_TRUE)>>)}}

InitStorage ==
    /\ fs \in StorageStores
    /\ op = Idle
    /\ ret = NoRet
    /\ nops = 0

GetSyncProfilesByStorage(aStorageName, aStorageMustBeEnabled) ==
    /\ ret = NoRet
    /\ \E r \in {getSyncProfilesByStorage(fs, aStorageName, aStorageMustBeEnabled)},
          all \in {allSyncProfiles(fs)} :
          /\ fs' = r.fs
          /\ ret' = [op |-> "getSyncProfilesByStorage", storageName |-> aStorageName,
                     mustBeEnabled |-> aStorageMustBeEnabled,
                     profiles |-> r.profiles, all |-> all.profiles]
    /\ UNCHANGED <<op, nops>>

\* one query in a behaviour
NextStorage ==
    /\ ret = NoRet
    /\ \E aStorageName \in StorageNames, aStorageMustBeEnabled \in BOOLEAN :
            GetSyncProfilesByStorage(aStorageName, aStorageMustBeEnabled)

SpecStorage == InitStorage /\ [][NextStorage]_vars

\* the four conditions of the storage search on one sync profile
SupportsStorage(P, storageName, mustBeEnabled) ==
    /\ key(P, "enabled") # "false"
    /\ key(P, "hidden") # "true"
    /\ \E i \in DOMAIN P.subs :
          P.subs[i].type = "service" /\ key(P.subs[i], "destinationType") = "online"
    /\ \E i \in DOMAIN P.subs :
          /\ P.subs[i].name = storageName /\ P.subs[i].type = "storage"
          /\ mustBeEnabled => key(P.subs[i], "enabled") = "true"

(***************************************************************************)
(* C11: getSyncProfilesByStorage(storageName, mustBeEnabled) returns       *)
(* exactly the sync profiles that are not disabled, not hidden, have a     *)
(* service sub-profile with destinationType "online" and have the storage  *)
(* sub-profile, which is enabled when mustBeEnabled is set.                *)
(***************************************************************************)
C11_StorageSearch ==
    ret.op = "getSyncProfilesByStorage" =>
        ret.profiles =
            SelectSeq(ret.all,
                LAMBDA P : SupportsStorage(P, ret.storageName, ret.mustBeEnabled))

\* with mustBeEnabled set, one profile was returned and another, whose
\* storage sub-profile has no enabled key, was rejected on that ground only
C11_Witness ==
    /\ ret.op = "getSyncProfilesByStorage" /\ ret.mustBeEnabled
    /\ Len(ret.all) = 2 /\ Len(ret.profiles) = 1
    /\ \E i \in DOMAIN ret.all :
          /\ SupportsStorage(ret.all[i], ret.storageName, FALSE)
          /\ \E j \in DOMAIN ret.all[i].subs :
                /\ ret.all[i].subs[j].name = ret.storageName
                /\ ret.all[i].subs[j].type = "storage"
                /\ key(ret.all[i].subs[j], "enabled") = NullKey

(***************************************************************************)
(* The expander, pass by pass.  syncProfile(aName) is called once; expand  *)
(* runs one round of its while loop in a step; then expand is called a     *)
(* second time on the profile syncProfile returned.                        *)
(***************************************************************************)
\* a profile element with key k and the given sub-profile elements
Element(n, t, k, subs) ==
    [kind |-> "doc", name |-> n, type |-> t, keys |-> [NoKeys EXCEPT !["k"] = k],
     subs |-> subs]

PAA == ProfilePath("primary", "a", "a")

\* the files of the sync profile a: with no sub-profile, with a reference to
\* (a, a) with or without a key of its own, with (a, a) referenced from two
\* places, with a reference to a profile that has no file, with a reference
\* to itself, and with a declared type that is not sync
ExpandRoots ==
    {NoFile,
     Element("a", TYPE_SYNC, "root", <<>>),
     Element("a", TYPE_SYNC, "root", <<Element("a", "a", NullKey, <<>>)>>),
     Element("a", TYPE_SYNC, "root", <<Element("a", "a", "inline", <<>>)>>),
     Element("a", TYPE_SYNC, "root",
             <<Element("sync", "a", NullKey, <<Element("a", "a", NullKey, <<>>)>>),
               Element("a", "a", NullKey, <<>>)>>),
     Element("a", TYPE_SYNC, "root", <<Element("x", "a", "inline", <<>>)>>),
     Element("a", TYPE_SYNC, NullKey, <<Element("a", TYPE_SYNC, NullKey, <<>>)>>),
     Element("a", "a", "root", <<>>)}

\* the files of (a, a): with a reference to (sync, a) or to itself
ExpandFilesA ==
    {NoFile,
     Element("a", "a", "A", <<>>),
     [Element("a", "a", "A", <<Element("sync", "a", NullKey, <<>>)>>)
         EXCEPT !.keys["hidden"] = "true"],
     Element("a", "a", "A", <<Element("a", "a", NullKey, <<>>)>>)}

\* the files of (sync, a): with a reference back to (a, a)
ExpandFilesB ==
    {NoFile,
     Element("sync", "a", "B", <<>>),
     Element("sync", "a", "B", <<Element("a", "a", NullKey, <<>>)>>)}

\* the log file that rename("sync", "a") moves to the log path of a: rename
\* moves the file and leaves the profile attribute of its root element alone
RenamedLog == LogDoc("sync", <<"r1">>)

ExpandStores ==
    {Store((PSyncA :> r) @@ (PAA :> a) @@ (PASync :> b)
            @@ (LogPath(TYPE_SYNC, "a") :> la)) :
        r \in ExpandRoots, a \in ExpandFilesA, b \in ExpandFilesB,
        la \in {NoFile, Partial, LogDoc("a", <<"r1", "r2">>), RenamedLog}}
    \cup {Store((BackupPath(PSyncA) :> Element("a", TYPE_SYNC, "root", <<>>)))}

InitExpand ==
    /\ fs \in ExpandStores
    /\ op = Idle
    /\ ret = NoRet
    /\ nops = 0

\* the call of expand number run, entered for aProfile
Expanding(aName, run, aProfile) ==
    LET locals == expandEnter(aProfile)
    IN  [kind |-> "expand", name |-> aName, run |-> run, passes |-> 0,
         pc |-> locals.pc, root |-> locals.root,
         prevSubCount |-> locals.prevSubCount,
         subProfiles |-> locals.subProfiles, subCount |-> locals.subCount]

\* syncProfile, lines 345-354: load the profile and enter expand
SyncProfileBegin(aName) ==
    /\ op = Idle /\ ret = NoRet
    /\ \E l \in {load(fs, aName, TYPE_SYNC)} :
          /\ fs' = l.fs
          /\ IF l.profile # NullProfile /\ l.profile.type = TYPE_SYNC
             THEN /\ op' = Expanding(aName, 1, l.profile)
                  /\ ret' = ret
             ELSE /\ op' = Idle
                  /\ ret' = [op |-> "syncProfile", name |-> aName,
                             profile |-> NullProfile]
    /\ UNCHANGED nops

\* expand, lines 743-773: one round of the while loop
ExpandPass ==
    /\ op.kind = "expand" /\ op.pc = "while"
    /\ op.subCount > op.prevSubCount
    /\ \E pass \in {expandPass(fs, op.root, op.subProfiles, op.subCount)} :
          /\ fs' = pass.fs
          /\ op' = [op EXCEPT !.root = pass.root,
                              !.prevSubCount = pass.prevSubCount,
                              !.subProfiles = pass.subProfiles,
                              !.subCount = pass.subCount,
                              !.passes = @ + 1]
    /\ UNCHANGED <<ret, nops>>

\* expand, line 775: the loop is left and the profile is marked loaded
ExpandReturn ==
    /\ op.kind = "expand" /\ op.pc = "while"
    /\ ~(op.subCount > op.prevSubCount)
    /\ op' = [op EXCEPT !.pc = "return", !.root.loaded = TRUE]
    /\ UNCHANGED <<fs, ret, nops>>

\* syncProfile, lines 356-372: the log is attached and the profile returned
SyncProfileEnd(openOk) ==
    /\ op.kind = "expand" /\ op.pc = "return" /\ op.run = 1
    /\ ret' = [op |-> "syncProfile", name |-> op.name,
               profile |-> attachLog(fs, op.root, op.name, openOk)]
    /\ op' = Idle
    /\ UNCHANGED <<fs, nops>>

\* expand is called again on the profile that syncProfile returned
ExpandAgain ==
    /\ op = Idle /\ ret.op = "syncProfile" /\ ret.profile # NullProfile
    /\ op' = Expanding(ret.name, 2, ret.profile)
    /\ UNCHANGED <<fs, ret, nops>>

\* the second call of expand returns
ExpandAgainEnd ==
    /\ op.kind = "expand" /\ op.pc = "return" /\ op.run = 2
    /\ ret' = [op |-> "expand", name |-> op.name, first |-> ret.profile,
               profile |-> op.root, passes |-> op.passes]
    /\ op' = Idle
    /\ UNCHANGED <<fs, nops>>

NextExpand ==
    \/ \E aName \in Names : SyncProfileBegin(aName)
    \/ ExpandPass
    \/ ExpandReturn
    \/ \E openOk \in BOOLEAN : SyncProfileEnd(openOk)
    \/ ExpandAgain
    \/ ExpandAgainEnd

SpecExpand == InitExpand /\ [][NextExpand]_vars

\* every pending step of a call is taken in the end
SpecExpandFair == SpecExpand /\ WF_vars(NextExpand)

\* the profile of the tree and all its sub-profiles are marked loaded
AllLoaded(root) ==
    /\ root.loaded
    /\ \A i \in DOMAIN allSubProfilePaths(root) :
          NodeAt(root, allSubProfilePaths(root)[i]).loaded

RECURSIVE Depth(_)
Depth(p) ==
    IF p.subs = <<>> THEN 0
    ELSE 1 + (CHOOSE d \in {Depth(p.subs[i]) : i \in DOMAIN p.subs} :
                \A e \in {Depth(p.subs[i]) : i \in DOMAIN p.subs} : e <= d)

(***************************************************************************)
(* C13: expansion completeness.  When expand returns, the profile and      *)
(* every profile of its allSubProfiles() are marked loaded.                *)
(***************************************************************************)
C13_ExpansionComplete ==
    /\ (op.kind = "expand" /\ op.pc = "return") => AllLoaded(op.root)
    /\ (ret.op = "syncProfile" /\ ret.profile # NullProfile) => AllLoaded(ret.profile)

\* expand has returned a tree with a sub-profile two levels down that a merge
\* introduced in a later round, or with a sub-profile that has no file
C13_Witness ==
    /\ op.kind = "expand" /\ op.pc = "return" /\ op.run = 1
    /\ op.passes >= 2
    /\ Depth(op.root) >= 2
    /\ Len(allSubProfilePaths(op.root)) >
            Len(allSubProfilePaths(createProfile(fs[PSyncA])))

\* a step is a round of the while loop of expand
IsPass == op.kind = "expand" /\ op'.kind = "expand" /\ op'.passes = op.passes + 1

(***************************************************************************)
(* C14: expander termination.  Every call of expand returns, also on       *)
(* files whose references form a cycle, and every round of its loop either *)
(* adds sub-profiles to the tree or is the last one.                       *)
(***************************************************************************)
C14_ExpanderTerminates ==
    /\ [][IsPass =>
            \/ Len(allSubProfilePaths(op'.root)) > Len(allSubProfilePaths(op.root))
            \/ ~(op'.subCount > op'.prevSubCount)]_vars
    /\ (op.kind = "expand") ~> (op.kind = "idle")

\* expand has returned after three rounds on files that refer to each other:
\* (a, a) refers to (sync, a), whose file refers back to (a, a)
C14_Witness ==
    /\ op.kind = "expand" /\ op.pc = "return" /\ op.run = 1
    /\ op.passes >= 3
    /\ \E i \in DOMAIN fs[PAA].subs : fs[PAA].subs[i].name = "sync"
    /\ \E i \in DOMAIN fs[PASync].subs : fs[PASync].subs[i].name = "a"

(***************************************************************************)
(* C15: expansion idempotence.  A second call of expand on the profile     *)
(* that syncProfile returned runs no round of the loop, so it loads and    *)
(* merges nothing, and it leaves the profile tree as the first call left   *)
(* it.                                                                     *)
(***************************************************************************)
C15_ExpandIdempotent ==
    /\ (op.kind = "expand" /\ op.run = 2) => op.passes = 0 /\ op.root = ret.profile
    /\ ret.op = "expand" => ret.passes = 0 /\ ret.profile = ret.first

\* the second call has returned on a tree with merged sub-profiles
C15_Witness ==
    /\ ret.op = "expand"
    /\ Len(allSubProfilePaths(ret.first)) >= 2
    /\ \E i \in DOMAIN ret.first.subs : ret.first.subs[i].keys["k"] = "A"

\* the node holds the content of the profile file of its name and type: the
\* keys of the file with the file's values, and a sub-profile for every
\* sub-profile the file refers to
HoldsFile(f, node) ==
    LET path == findProfileFile(f, node.name, node.type)
    IN  parseFile(f, path) =>
            /\ \A k \in DOMAIN f[path].keys :
                  f[path].keys[k] # NullKey => key(node, k) = f[path].keys[k]
            /\ \A i \in DOMAIN f[path].subs :
                  \E j \in DOMAIN node.subs :
                      /\ node.subs[j].name = f[path].subs[i].name
                      /\ node.subs[j].type = f[path].subs[i].type

\* the paths of the tree to the first sub-profile of each name and type
FirstPaths(root) ==
    LET paths == allSubProfilePaths(root)
    IN  {paths[i] : i \in {i \in DOMAIN paths :
            \A j \in 1..(i - 1) :
                \/ NodeAt(root, paths[j]).name # NodeAt(root, paths[i]).name
                \/ NodeAt(root, paths[j]).type # NodeAt(root, paths[i]).type}}

C17_SyncProfileResult ==
    (ret.op = "syncProfile") =>
        LET file == findProfileFile(fs, ret.name, TYPE_SYNC)
            logFile == LogPath(TYPE_SYNC, ret.name)
        IN  IF ~parseFile(fs, file) \/ fs[file].type # TYPE_SYNC
            THEN ret.profile = NullProfile
            ELSE /\ ret.profile # NullProfile
                 /\ AllLoaded(ret.profile)
                 /\ ret.profile.log # NullLog
                 /\ ret.profile.log.profileName = ret.name
                 /\ ret.profile.log.results =
                        IF Exists(fs, logFile) /\ fs[logFile].kind = "log"
                        THEN fs[logFile].results ELSE <<>>

\* syncProfile never creates or modifies a log file
C17_LogFilesUntouched ==
    [][\A n \in Names : fs'[LogPath(TYPE_SYNC, n)] = fs[LogPath(TYPE_SYNC, n)]]_vars

\* syncProfile(a) has returned a profile whose log carries another profile
\* name than a: the log file was moved to a's log path by rename
C17_StaleName ==
    /\ ret.op = "syncProfile" /\ ret.name = "a"
    /\ ret.profile # NullProfile
    /\ fs[LogPath(TYPE_SYNC, "a")] = RenamedLog
    /\ ret.profile.log.profileName = "sync"

(***************************************************************************)
(* The log store under the facade operations saveSyncResults, saveLog,     *)
(* syncProfile, rename and remove, each a whole call, from stores that     *)
(* hold sync profiles and no log file.                                     *)
(***************************************************************************)
MaxLogOps == 3

LogStores ==
    {Store((PSyncA :> Element("a", TYPE_SYNC, "root", <<>>))),
     Store((PSyncA :> Element("a", TYPE_SYNC, "root", <<>>))
            @@ (PSyncSync :> Element("sync", TYPE_SYNC, "root", <<>>)))}

InitLog ==
    /\ fs \in LogStores
    /\ op = Idle
    /\ ret = NoRet
    /\ nops = 0

\* the results that loadLog reads for aProfileName when the file can be opened
StoredResults(f, aProfileName) ==
    IF loadLog(f, aProfileName) = NullLog THEN <<>>
    ELSE loadLog(f, aProfileName).results

LogSaveSyncResults(aProfileName, aResults, readOk, openOk) ==
    /\ nops < MaxLogOps
    /\ nops' = nops + 1
    /\ \E r \in {saveSyncResults(fs, aProfileName, aResults, readOk, openOk)} :
          /\ fs' = r.fs
          /\ ret' = [op |-> "saveSyncResults", name |-> aProfileName,
                     results |-> aResults, result |-> r.result]
    /\ op' = op

\* syncProfile as one step; openOk is the outcome of file.open(ReadOnly) in loadLog
LogSyncProfile(aName, openOk) ==
    /\ nops < MaxLogOps
    /\ nops' = nops + 1
    /\ \E l \in {load(fs, aName, TYPE_SYNC)} :
          IF l.profile # NullProfile /\ l.profile.type = TYPE_SYNC
          THEN \E e \in {expand(l.fs, l.profile)} :
                  /\ fs' = e.fs
                  /\ ret' = [op |-> "syncProfile", name |-> aName,
                             profile |-> attachLog(e.fs, e.profile, aName, openOk)]
          ELSE /\ fs' = l.fs
               /\ ret' = [op |-> "syncProfile", name |-> aName, profile |-> NullProfile]
    /\ op' = op

\* saveLog called with the log of the profile that syncProfile returned, as
\* it is or with one more result added to it
LogSaveLog(aResults, openOk) ==
    /\ nops < MaxLogOps
    /\ ret.op = "syncProfile" /\ ret.profile # NullProfile
    /\ nops' = nops + 1
    /\ \E log \in {ret.profile.log, addResults(ret.profile.log, aResults)} :
       \E r \in {saveLog(fs, log, openOk)} :
          /\ fs' = r.fs
          /\ ret' = [op |-> "saveLog", log |-> log, result |-> r.result]
    /\ op' = op

LogRename(aName, aNewName) ==
    /\ nops < MaxLogOps
    /\ nops' = nops + 1
    /\ \E r \in {rename(fs, aName, aNewName)} :
          /\ fs' = r.fs
          /\ ret' = [op |-> "rename", name |-> aName, newName |-> aNewName,
                     result |-> r.result]
    /\ op' = op

LogRemove(aName) ==
    /\ nops < MaxLogOps
    /\ nops' = nops + 1
    /\ \E r \in {remove(fs, aName, TYPE_SYNC)} :
          /\ fs' = r.fs
          /\ ret' = [op |-> "remove", name |-> aName, type |-> TYPE_SYNC,
                     result |-> r.result]
    /\ op' = op

NextLog ==
    \/ \E n \in Names, r \in Results, readOk \in BOOLEAN, openOk \in BOOLEAN :
          LogSaveSyncResults(n, r, readOk, openOk)
    \/ \E n \in Names, openOk \in BOOLEAN : LogSyncProfile(n, openOk)
    \/ \E r \in Results, openOk \in BOOLEAN : LogSaveLog(r, openOk)
    \/ \E n \in Names, m \in Names : LogRename(n, m)
    \/ \E n \in Names : LogRemove(n)

SpecLog == InitLog /\ [][NextLog]_vars

(***************************************************************************)
(* C18: append-only log.  Each saveSyncResults(name, r) that returns true  *)
(* leaves a log for name whose results are the results stored before the   *)
(* call followed by r, also when the existing log file cannot be opened.   *)
(***************************************************************************)
C18_AppendOnly ==
    [][(nops' = nops + 1 /\ ret'.op = "saveSyncResults" /\ ret'.result)
        => /\ loadLog(fs', ret'.name) # NullLog
           /\ loadLog(fs', ret'.name).results
                = Append(StoredResults(fs, ret'.name), ret'.results)]_vars

\* saveSyncResults(a, r) has returned true and has left a log for a that
\* holds r alone, after a call that had stored a result for a
C18_Dropped ==
    /\ nops = 2
    /\ ret.op = "saveSyncResults" /\ ret.name = "a" /\ ret.result
    /\ fs[LogPath(TYPE_SYNC, "sync")] = NoFile
    /\ fs[LogPath(TYPE_SYNC, "a")] = LogDoc("a", <<ret.results>>)

(***************************************************************************)
(* C19: log existence invariant.  In every state reached by saveLog,       *)
(* saveSyncResults, syncProfile, rename and remove from a store without    *)
(* log files, a log file <primary>/sync/logs/<profileName>.log.xml exists  *)
(* only if it contains at least one sync result.                           *)
(***************************************************************************)
C19_LogExistence ==
    \A n \in Names :
        Exists(fs, LogPath(TYPE_SYNC, n))
            => /\ fs[LogPath(TYPE_SYNC, n)].kind = "log"
               /\ fs[LogPath(TYPE_SYNC, n)].results # <<>>

\* saveLog was called with the empty log that syncProfile(a) attached and
\* has written a log file for a that holds no result
C19_EmptyLogFile ==
    /\ ret.op = "saveLog" /\ ret.result
    /\ ret.log = newSyncLog("a")
    /\ fs[LogPath(TYPE_SYNC, "a")] = newSyncLog("a")

(***************************************************************************)
(* C20: failure leaves the state unchanged.  Whenever remove or            *)
(* saveSyncResults (with it saveLog) reports false, every profile file and *)
(* every log file has the existence and the content it had before the      *)
(* call, except for a profile file that the load step restored from its    *)
(* backup.                                                                 *)
(***************************************************************************)
C20_FailureUnchanged ==
    [][((IsStep("remove") \/ IsStep("saveSyncResults")) /\ ~ret'.result)
        => \A path \in Paths :
              \/ path[4] = FORMAT_EXT \o BACKUP_EXT
              \/ fs'[path] = fs[path]
              \/ /\ path[4] = FORMAT_EXT
                 /\ parseFile(fs, BackupPath(path))
                 /\ fs'[path] = fs[BackupPath(path)]]_vars

(***************************************************************************)
(* setSyncSchedule.  The children of a profile element other than the      *)
(* nested profiles are held in one map: the keys, and for a sync profile   *)
(* the sync type and the schedule child.                                   *)
(***************************************************************************)
KEY_SYNC_TYPE == "syncType"

KEY_SCHEDULE == "schedule"

SYNC_SCHEDULED == "SCHEDULED"

\* the fragments setSyncSchedule is called with: two schedules and a string
\* that is not XML
ScheduleFragments == {"<schedule s1/>", "<schedule s2/>", "no xml"}

\* QDomDocument::setContent on the schedule fragment
setContent(aScheduleAsXml) == aScheduleAsXml # "no xml"

\* SyncProfile::setSyncType and SyncProfile::setSyncSchedule
withSchedule(p, syncType, schedule) ==
    [p EXCEPT !.keys = (KEY_SYNC_TYPE :> syncType) @@ (KEY_SCHEDULE :> schedule)
                          @@ [k \in DOMAIN p.keys \ {KEY_SYNC_TYPE, KEY_SCHEDULE} |-> p.keys[k]]]

\* setSyncSchedule that returns the result of save
setSyncSchedule_SaveResult(f, aProfileId, aScheduleAsXml, openOk) ==
    LET set(sp) ==
            IF sp.profile = NullProfile THEN [fs |-> sp.fs, result |-> FALSE]
            ELSE IF ~setContent(aScheduleAsXml) THEN [fs |-> sp.fs, result |-> FALSE]
            ELSE save(sp.fs, withSchedule(sp.profile, SYNC_SCHEDULED, aScheduleAsXml), openOk)
    IN  set(syncProfile(f, aProfileId))

\* ProfileManager::setSyncSchedule; openOk is the outcome of the open in save
setSyncSchedule(f, aProfileId, aScheduleAsXml, openOk) ==
    LET set(sp) ==
            IF sp.profile = NullProfile THEN [fs |-> sp.fs, result |-> FALSE]
            ELSE IF ~setContent(aScheduleAsXml) THEN [fs |-> sp.fs, result |-> FALSE]
            ELSE [fs |-> save(sp.fs, withSchedule(sp.profile, SYNC_SCHEDULED, aScheduleAsXml),
                              openOk).fs,
                  result |-> TRUE]
    IN  set(syncProfile(f, aProfileId))

\* the sync profile documents of the schedule stores: manual, or scheduled
\* with an earlier schedule
ScheduleDocs(n) ==
    {Element(n, TYPE_SYNC, "root", <<>>),
     toXml(withSchedule(createProfile(Element(n, TYPE_SYNC, "root", <<>>)),
                        SYNC_SCHEDULED, "<schedule s0/>"))}

ScheduleStores ==
    {Store((PSyncA :> pa) @@ (SSyncA :> sa) @@ (PSyncSync :> ps)) :
        pa \in {NoFile, Partial} \cup ScheduleDocs("a"),
        sa \in {NoFile, Element("a", TYPE_SYNC, "system", <<>>)},
        ps \in {NoFile, Element("sync", "a", "root", <<>>)}}

InitSchedule ==
    /\ fs \in ScheduleStores
    /\ op = Idle
    /\ ret = NoRet
    /\ nops = 0

SetSyncSchedule(aProfileId, aScheduleAsXml, openOk) ==
    /\ ret = NoRet
    /\ \E r \in {setSyncSchedule(fs, aProfileId, aScheduleAsXml, openOk)} :
          /\ fs' = r.fs
          /\ ret' = [op |-> "setSyncSchedule", name |-> aProfileId,
                     schedule |-> aScheduleAsXml, openOk |-> openOk,
                     before |-> fs, result |-> r.result]
    /\ UNCHANGED <<op, nops>>

\* the syncProfile(profileId) that follows a setSyncSchedule
SyncProfileAfter ==
    /\ ret.op = "setSyncSchedule"
    /\ \E sp \in {syncProfile(fs, ret.name)} :
          /\ fs' = sp.fs
          /\ ret' = [op |-> "syncProfile", name |-> ret.name, profile |-> sp.profile,
                     set |-> ret]
    /\ UNCHANGED <<op, nops>>

NextSchedule ==
    \/ \E n \in Names, x \in ScheduleFragments, openOk \in BOOLEAN :
          SetSyncSchedule(n, x, openOk)
    \/ SyncProfileAfter

SpecSchedule == InitSchedule /\ [][NextSchedule]_vars

\* the outcome of the call recorded in r, as the claim has it
ScheduleOutcome(r, after) ==
    LET loaded == syncProfile(r.before, r.name).profile # NullProfile
        done == loaded /\ setContent(r.schedule) /\ r.openOk
        file == ProfilePath("primary", TYPE_SYNC, r.name)
    IN  /\ r.result => done
        /\ r.result => /\ parseFile(after, file)
                       /\ key(after[file], KEY_SYNC_TYPE) = SYNC_SCHEDULED
                       /\ key(after[file], KEY_SCHEDULE) = r.schedule
        /\ ~done => /\ ~r.result
                    /\ \A path \in ProfilePaths : after[path] = r.before[path]

(***************************************************************************)
(* C21: setSyncSchedule(profileId, scheduleXml) returns true only if the   *)
(* sync profile was loaded, the fragment parsed and the profile was saved  *)
(* with syncType SCHEDULED and the new schedule, so that a following       *)
(* syncProfile(profileId) returns that schedule; it returns false, with    *)
(* the profile file unchanged, when the profile cannot be loaded, the      *)
(* fragment does not parse, or the save fails.                             *)
(***************************************************************************)
C21_SetSyncSchedule ==
    /\ (ret.op = "setSyncSchedule") => ScheduleOutcome(ret, fs)
    /\ (ret.op = "syncProfile" /\ "set" \in DOMAIN ret /\ ret.set.result)
          => /\ ret.profile # NullProfile
             /\ key(ret.profile, KEY_SCHEDULE) = ret.set.schedule

\* setSyncSchedule has returned true although the open in save failed, and
\* the profile file holds no schedule
C21_TrueWithoutSave ==
    /\ ret.op = "setSyncSchedule" /\ ret.name = "a"
    /\ ret.result /\ ~ret.openOk
    /\ fs[PSyncA] = Element("a", TYPE_SYNC, "root", <<>>)

(***************************************************************************)
(* createTempSyncProfile.  A device address is a sequence of characters,   *)
(* so that "contains" is a search; the device properties are the answers   *)
(* of the device property oracle of BtHelper.                              *)
(***************************************************************************)
BT_PROFILE_TEMPLATE == "bt_template"

KEY_DISPLAY_NAME == "displayName"

KEY_BT_ADDRESS == "btAddress"

KEY_BT_NAME == "btName"

DEFAULT_DISPLAY_NAME == "qtn_sync_dest_name_device_default"

pcsuiteClass == 256

RECURSIVE Join(_)
\* the string of a sequence of characters
Join(chars) == IF chars = <<>> THEN "" ELSE Head(chars) \o Join(Tail(chars))

\* QString::contains
contains(chars, needle) ==
    \E i \in 1..(Len(chars) - Len(needle) + 1) :
        SubSeq(chars, i, i + Len(needle) - 1) = needle

\* classType & pcsuiteClass, for the one bit of pcsuiteClass
BitAnd(classType, bit) == ((classType \div bit) % 2) * bit

\* SyncProfile::SyncProfile(aName): a sync profile with the name and nothing else
newSyncProfile(aName) ==
    [kind |-> "profile", name |-> aName, type |-> TYPE_SYNC, keys |-> NoKeys,
     subs |-> <<>>, loaded |-> FALSE, log |-> NullLog]

\* Profile::setKey
setKey(p, aName, aValue) ==
    [p EXCEPT !.keys = (aName :> aValue) @@ [k \in DOMAIN p.keys \ {aName} |-> p.keys[k]]]

\* Profile::setName(const QStringList &aKeys) for the keys [destAddress, serviceName]
nameOfKeys(destAddress, serviceName) == Join(destAddress) \o "," \o serviceName

\* the position of the sub-profile that SyncProfile::serviceProfile returns,
\* 0 when the profile has no sub-profile of type service
serviceProfileAt(p) ==
    IF \E i \in DOMAIN p.subs : p.subs[i].type = TYPE_SERVICE
    THEN CHOOSE i \in DOMAIN p.subs :
            /\ p.subs[i].type = TYPE_SERVICE
            /\ \A j \in DOMAIN p.subs : p.subs[j].type = TYPE_SERVICE => i <= j
    ELSE 0

Returned(profile, saveNewProfile) ==
    [kind |-> "returned", profile |-> profile, saveNewProfile |-> saveNewProfile]

\* the process is stopped by the read through a null pointer
Crashed == [kind |-> "crashed"]

\* createTempSyncProfile, lines 666-677, for the template profile tProfile
fromTemplate(tProfile, destAddress, profileDisplayName) ==
    LET at == serviceProfileAt(tProfile)
        renamed == [setKey(setKey(setKey(tProfile, KEY_DISPLAY_NAME, profileDisplayName),
                                  KEY_ENABLED, BOOLEAN_TRUE),
                           KEY_HIDDEN, BOOLEAN_FALSE)
                       EXCEPT !.name = nameOfKeys(destAddress, tProfile.subs[at].name)]
    IN  IF at # 0
        THEN [renamed EXCEPT !.subs[at] =
                 setKey(setKey(@, KEY_BT_ADDRESS, Join(destAddress)),
                        KEY_BT_NAME, profileDisplayName)]
        ELSE tProfile

\* ProfileManager::createTempSyncProfile: the store after the call and the
\* outcomes the call can have.  tProfile->serviceProfile() on the null
\* pointer that syncProfile returns for a missing template is undefined:
\* the process is stopped, or the call goes on as if there were no service
\* profile and returns the null pointer
createTempSyncProfile(f, destAddress, classType, aName) ==
    LET profileDisplayName == IF aName = "" THEN DEFAULT_DISPLAY_NAME ELSE aName
        templated(sp) ==
            [fs |-> sp.fs,
             outcomes |->
                IF sp.profile = NullProfile
                THEN {Crashed, Returned(NullProfile, TRUE)}
                ELSE {Returned(fromTemplate(sp.profile, destAddress, profileDisplayName),
                               TRUE)}]
    IN  IF contains(destAddress, <<"U", "S", "B">>)
        THEN [fs |-> f, outcomes |-> {Returned(newSyncProfile(Join(destAddress)), FALSE)}]
        ELSE IF BitAnd(classType, pcsuiteClass) # 0
        THEN [fs |-> f, outcomes |-> {Returned(newSyncProfile(Join(destAddress)), FALSE)}]
        ELSE templated(syncProfile(f, BT_PROFILE_TEMPLATE))

PTemplate == ProfilePath("primary", TYPE_SYNC, BT_PROFILE_TEMPLATE)

\* the template files: none, a template without a service sub-profile, and
\* templates with one, hidden and disabled or not
TemplateDocs ==
    {NoFile,
     Element(BT_PROFILE_TEMPLATE, TYPE_SYNC, "t", <<>>),
     Element(BT_PROFILE_TEMPLATE, TYPE_SYNC, "t", <<Element("s", TYPE_STORAGE, NullKey, <<>>)>>),
     Element(BT_PROFILE_TEMPLATE, TYPE_SYNC, "t", <<Element("svc", TYPE_SERVICE, NullKey, <<>>)>>),
     [Element(BT_PROFILE_TEMPLATE, TYPE_SYNC, "t",
              <<Element("s", TYPE_STORAGE, NullKey, <<>>),
                Element("svc", TYPE_SERVICE, "x", <<>>)>>)
         EXCEPT !.keys["hidden"] = "true"]}

TemplateStores ==
    {[path \in Paths \cup {PTemplate} |-> IF path = PTemplate THEN t ELSE NoFile] :
        t \in TemplateDocs}

\* device addresses: a USB address, one that has USB inside, two Bluetooth ones
DestAddresses ==
    {<<"U", "S", "B", "1">>, <<"p", "U", "S", "B">>, <<"b", "t">>, <<"U", "S", "b", "B">>}

\* answers of the oracle for Class: no class, Computer, Computer with minor
\* bits, Phone
DeviceClasses == {0, 256, 260, 512}

DeviceNames == {"", "dev"}

InitTemp ==
    /\ fs \in TemplateStores
    /\ op = Idle
    /\ ret = NoRet
    /\ nops = 0

CreateTempSyncProfile(destAddress, classType, aName) ==
    /\ ret = NoRet
    /\ \E r \in {createTempSyncProfile(fs, destAddress, classType, aName)} :
          /\ fs' = r.fs
          /\ \E outcome \in r.outcomes :
                ret' = [op |-> "createTempSyncProfile", destAddress |-> destAddress,
                        classType |-> classType, deviceName |-> aName,
                        before |-> fs, outcome |-> outcome]
    /\ UNCHANGED <<op, nops>>

NextTemp ==
    \E destAddress \in DestAddresses, classType \in DeviceClasses, aName \in DeviceNames :
        CreateTempSyncProfile(destAddress, classType, aName)

SpecTemp == InitTemp /\ [][NextTemp]_vars

\* destAddress has the characters U, S, B in a row
HasUSB(chars) ==
    \E i \in DOMAIN chars :
        i + 2 <= Len(chars) /\ chars[i] = "U" /\ chars[i + 1] = "S" /\ chars[i + 2] = "B"

\* the Class has bit 0x100 set
IsComputer(classType) == classType \in {256, 260}

(***************************************************************************)
(* C22: createTempSyncProfile always returns a profile: with               *)
(* outShouldPersist false and a minimal profile named destAddress when     *)
(* destAddress contains USB or the device Class has bit 0x100 set;         *)
(* otherwise with outShouldPersist true and the bt_template clone renamed  *)
(* to [destAddress, serviceName], enabled and not hidden, for every store  *)
(* content.                                                                *)
(***************************************************************************)
C22_TempProfile ==
    (ret.op = "createTempSyncProfile") =>
        /\ ret.outcome.kind = "returned"
        /\ ret.outcome.profile # NullProfile
        /\ IF HasUSB(ret.destAddress) \/ IsComputer(ret.classType)
           THEN /\ ~ret.outcome.saveNewProfile
                /\ ret.outcome.profile.name = Join(ret.destAddress)
                /\ ret.outcome.profile.subs = <<>>
           ELSE /\ ret.outcome.saveNewProfile
                /\ ret.outcome.profile.name # BT_PROFILE_TEMPLATE
                /\ \E i \in DOMAIN ret.outcome.profile.subs :
                      /\ ret.outcome.profile.subs[i].type = TYPE_SERVICE
                      /\ ret.outcome.profile.name
                            = nameOfKeys(ret.destAddress, ret.outcome.profile.subs[i].name)
                /\ key(ret.outcome.profile, KEY_ENABLED) = BOOLEAN_TRUE
                /\ key(ret.outcome.profile, KEY_HIDDEN) = BOOLEAN_FALSE

\* the call for a Bluetooth device with no bt_template in the store has
\* stopped the process
C22_NullTemplate ==
    /\ ret.op = "createTempSyncProfile"
    /\ ret.before[PTemplate] = NoFile
    /\ ret.outcome = Crashed

\* the call has returned the template under its own name, to be persisted
C22_NoService ==
    /\ ret.op = "createTempSyncProfile"
    /\ ret.outcome.kind = "returned"
    /\ ret.outcome.saveNewProfile
    /\ ret.outcome.profile # NullProfile
    /\ ret.outcome.profile.name = BT_PROFILE_TEMPLATE

\* the part of the claim that holds: whenever a service sub-profile is in
\* the template, or the device is a USB device or a computer
C22_WithService ==
    (/\ ret.op = "createTempSyncProfile"
     /\ \/ HasUSB(ret.destAddress) \/ IsComputer(ret.classType)
        \/ /\ parseFile(ret.before, PTemplate)
           /\ \E i \in DOMAIN ret.before[PTemplate].subs :
                 ret.before[PTemplate].subs[i].type = TYPE_SERVICE)
        => C22_TempProfile

(***************************************************************************)
(* Listing.  profileNames(type) and allSyncProfiles() over stores with     *)
(* files in both roots: complete, truncated, of another declared type,     *)
(* moved there by rename, and with a backup next to the primary file.      *)
(***************************************************************************)
SSyncSync == ProfilePath("secondary", TYPE_SYNC, "sync")

NamesStores ==
    {Store((PSyncA :> pa) @@ (BackupPath(PSyncA) :> ba) @@ (SSyncA :> sa)
            @@ (PSyncSync :> ps) @@ (SSyncSync :> ss) @@ (PASync :> px)) :
        pa \in {NoFile, Partial, Doc(TYPE_SYNC, "a", "primary", NullKey),
                Doc("a", "a", "primary", NullKey)},
        ba \in {NoFile, Doc(TYPE_SYNC, "a", "backup", NullKey)},
        sa \in {NoFile, Doc(TYPE_SYNC, "a", "system", NullKey)},
        ps \in {NoFile, Doc(TYPE_SYNC, "sync", "primary", NullKey),
                Doc(TYPE_SYNC, "a", "renamed", NullKey)},
        ss \in {NoFile, Doc(TYPE_SYNC, "sync", "system", NullKey)},
        px \in {NoFile, Doc("a", "sync", "primary", NullKey)}}

InitNames ==
    /\ fs \in NamesStores
    /\ op = Idle
    /\ ret = NoRet
    /\ nops = 0

ProfileNames(aType) ==
    /\ ret = NoRet
    /\ ret' = [op |-> "profileNames", type |-> aType, before |-> fs,
               names |-> profileNames(fs, aType)]
    /\ UNCHANGED <<fs, op, nops>>

AllSyncProfiles ==
    /\ ret = NoRet
    /\ \E r \in {allSyncProfiles(fs)} :
          /\ fs' = r.fs
          /\ ret' = [op |-> "allSyncProfiles", type |-> TYPE_SYNC, before |-> fs,
                     names |-> profileNames(fs, TYPE_SYNC), profiles |-> r.profiles]
    /\ UNCHANGED <<op, nops>>

NextNames ==
    \/ \E t \in Types : ProfileNames(t)
    \/ AllSyncProfiles

SpecNames == InitNames /\ [][NextNames]_vars

\* names holds every name with a file <name>.xml of the type in a root of f
\* exactly once, the names of the primary root before the others
ListsEachOnce(f, aType, names) ==
    /\ \A n \in Names :
          Cardinality({i \in DOMAIN names : names[i] = n})
            = IF Exists(f, ProfilePath("primary", aType, n))
                 \/ Exists(f, ProfilePath("secondary", aType, n))
              THEN 1 ELSE 0
    /\ \A i \in DOMAIN names : names[i] \in Names
    /\ \A i \in DOMAIN names, j \in DOMAIN names :
          (i < j /\ Exists(f, ProfilePath("primary", aType, names[j])))
              => Exists(f, ProfilePath("primary", aType, names[i]))

\* the file of the root that shadows the other for the sync profile n
ShadowingFile(f, n) ==
    IF Exists(f, ProfilePath("primary", TYPE_SYNC, n))
    THEN f[ProfilePath("primary", TYPE_SYNC, n)]
    ELSE f[ProfilePath("secondary", TYPE_SYNC, n)]

\* the document syncProfile(n) reads: the parseable backup next to the
\* resolved path when there is one, the resolved file otherwise
DocumentRead(f, n) ==
    LET backupPath == BackupPath(findProfileFile(f, n, TYPE_SYNC))
    IN  IF parseFile(f, backupPath) THEN f[backupPath] ELSE ShadowingFile(f, n)

\* the profile is built from the document
BuiltFrom(profile, doc) ==
    /\ doc.kind = "doc"
    /\ profile.name = doc.name /\ profile.type = doc.type /\ profile.keys = doc.keys

\* C23 as stated: allSyncProfiles yields one profile for every listed name,
\* built from the primary file when the name is in both roots
C23_Listing_Original ==
    /\ (ret.op \in {"profileNames", "allSyncProfiles"})
          => ListsEachOnce(ret.before, ret.type, ret.names)
    /\ (ret.op = "allSyncProfiles")
          => /\ Len(ret.profiles) = Len(ret.names)
             /\ \A i \in DOMAIN ret.names :
                   BuiltFrom(ret.profiles[i], ShadowingFile(ret.before, ret.names[i]))

(***************************************************************************)
(* C23: profileNames(type) lists every name that has a <name>.xml file     *)
(* under <primary>/<type>/ or <secondary>/<type>/ exactly once, primary    *)
(* names first and then the secondary names not present in the primary.    *)
(* allSyncProfiles() yields, in that order, one profile for every such     *)
(* name whose document parses and declares the type sync, and none for the *)
(* other names; the document is the one of the primary root when the name  *)
(* is in both roots (its parseable backup when there is one), never the    *)
(* secondary file.                                                         *)
(***************************************************************************)
C23_Listing ==
    /\ (ret.op \in {"profileNames", "allSyncProfiles"})
          => ListsEachOnce(ret.before, ret.type, ret.names)
    /\ (ret.op = "allSyncProfiles")
          => LET usable(n) == /\ DocumentRead(ret.before, n).kind = "doc"
                              /\ DocumentRead(ret.before, n).type = TYPE_SYNC
                 yielding == SelectSeq(ret.names, usable)
             IN  /\ Len(ret.profiles) = Len(yielding)
                 /\ \A i \in DOMAIN yielding :
                       BuiltFrom(ret.profiles[i], DocumentRead(ret.before, yielding[i]))

\* allSyncProfiles has listed a, present in both roots, once and from the
\* primary file, before sync, which only the secondary root has
C23_Witness ==
    /\ ret.op = "allSyncProfiles"
    /\ ret.names = <<"a", "sync">>
    /\ ret.before[PSyncA] = Doc(TYPE_SYNC, "a", "primary", NullKey)
    /\ ret.before[SSyncA] # NoFile
    /\ ret.before[PSyncSync] = NoFile
    /\ Len(ret.profiles) = 2
    /\ ret.profiles[1].keys["k"] = "primary"
    /\ ret.profiles[2].keys["k"] = "system"

(***************************************************************************)
(* C24: save step order.  Whenever save(P) is called while a profile file  *)
(* for (P.name, P.type) exists in the primary or the secondary root (the   *)
(* file load(P.name, P.type) would read), that file has been copied to     *)
(* <primary>/<P.type>/<P.name>.xml.bak when the target file is opened for  *)
(* the truncating write: the backup holds the file's content at the moment *)
(* the target is first modified.                                           *)
(***************************************************************************)
C24_SaveStepOrder ==
    [][(op.kind = "save" /\ op.pc = "backup" /\ op'.kind = "save" /\ op'.pc = "open")
        => LET current == findProfileFile(fs, op.profile.name, op.profile.type)
           IN  Exists(fs, current)
                 => fs[BackupPath(savePath(op.profile))] = fs[current]]_vars

\* the target of a save was opened for the truncating write while the
\* profile had a file and no backup of it had been made
C24_NoBackup ==
    /\ op.kind = "save" /\ op.pc = "open"
    /\ op.old # NullProfile
    /\ ~Exists(fs, BackupPath(savePath(op.profile)))

\* load(n, t) on the store f keeps the backup protocol
LoadProtocolAt(f, n, t) ==
    LET path == findProfileFile(f, n, t)
        backup == BackupPath(path)
        loaded == load(f, n, t)
    IN  /\ parseFile(f, backup)
              => /\ loaded.fs[path] = f[backup]
                 /\ loaded.profile = createProfile(f[backup])
        /\ (Exists(f, backup) /\ ~parseFile(f, backup))
              => /\ ~Exists(loaded.fs, backup)
                 /\ loaded.fs[path] = f[path]
                 /\ loaded.profile = Content(f, path)
        /\ loaded.profile # NullProfile => ~Exists(loaded.fs, backup)

RestoreStores ==
    {Store((PSyncSync :> target) @@ (BackupPath(PSyncSync) :> backup)
            @@ (SSyncSync :> default) @@ (PSyncA :> other)) :
        target \in {NoFile, Partial, Doc(TYPE_SYNC, "sync", "new", NullKey)},
        backup \in {Partial, Doc(TYPE_SYNC, "sync", "good", NullKey)},
        default \in {NoFile, Doc(TYPE_SYNC, "sync", "system", NullKey)},
        other \in {NoFile, Doc(TYPE_SYNC, "a", "old", NullKey)}}

InitRestore ==
    /\ fs \in RestoreStores
    /\ op = Idle
    /\ ret = NoRet
    /\ nops = 0

NextRestore ==
    \/ \E n \in Names, t \in Types : LoadBegin(n, t)
    \/ LoadCopy
    \/ LoadEnd
    \/ Crash

SpecRestore == InitRestore /\ [][NextRestore]_vars

(***************************************************************************)
(* C26: crash-safe read.  If load(name, type) is interrupted at any point  *)
(* of its backup restore (after the profile file was deleted and before    *)
(* the backup was copied back, or after the copy and before the backup was *)
(* deleted), the next load(name, type) returns the backup's content, also  *)
(* when a secondary file for (name, type) exists.                          *)
(***************************************************************************)
C26_CrashSafeRead ==
    (/\ ret.op = "crash" /\ ret.during.kind = "load"
     /\ parseFile(fs, BackupPath(ret.during.path)))
        => load(fs, ret.during.name, ret.during.type).profile
              = createProfile(fs[BackupPath(ret.during.path)])

\* a load of (sync, sync) was interrupted between the removal of the
\* primary file and the copy of the backup, and the next load resolves to
\* the system default and returns its content
C26_DefaultReturned ==
    /\ ret.op = "crash" /\ ret.during.kind = "load" /\ ret.during.pc = "removed"
    /\ ret.during.path = PSyncSync
    /\ fs[BackupPath(PSyncSync)] = Doc(TYPE_SYNC, "sync", "good", NullKey)
    /\ load(fs, "sync", TYPE_SYNC).profile.keys["k"] = "system"

\* the claim holds when no secondary file exists for (name, type)
C26_WithoutSecondary ==
    (/\ ret.op = "crash" /\ ret.during.kind = "load"
     /\ ~Exists(fs, ProfilePath("secondary", ret.during.type, ret.during.name)))
        => C26_CrashSafeRead

(***************************************************************************)
(* C27: backup provenance.  Over names and types drawn from overlapping    *)
(* sets, the content of a backup file <primary>/<type>/<name>.xml.bak is a *)
(* content that the profile file of that same (name, type) held: every     *)
(* step that writes the backup file copies the profile file of (name,      *)
(* type), primary or secondary, as it is before the step.                  *)
(***************************************************************************)
C27_BackupProvenance ==
    [][\A n \in Names, t \in Types :
          LET backup == BackupPath(ProfilePath("primary", t, n))
          IN  (Exists(fs', backup) /\ fs'[backup] # fs[backup])
                => \/ fs'[backup] = fs[ProfilePath("primary", t, n)]
                   \/ fs'[backup] = fs[ProfilePath("secondary", t, n)]]_vars

\* a save of the profile (a, sync) has left, as the backup of sync/a.xml,
\* a copy of a/sync.xml, the file of the profile named sync of type a
C27_ForeignBackup ==
    /\ op.kind = "save" /\ op.pc = "backup"
    /\ op.profile.name = "a" /\ op.profile.type = TYPE_SYNC
    /\ parseFile(fs, PSyncA) /\ fs[PSyncA].name = "a" /\ fs[PSyncA].type = TYPE_SYNC
    /\ parseFile(fs, BackupPath(PSyncA))
    /\ fs[BackupPath(PSyncA)] = fs[PASync]
    /\ fs[BackupPath(PSyncA)].name = "sync" /\ fs[BackupPath(PSyncA)].type = "a"

\* the step is the backup step of a save that follows a failed or an
\* interrupted save of the same profile file, whose backup still exists
SaveAfterUnfinishedSave ==
    /\ op = Idle /\ op'.kind = "save" /\ op'.pc = "backup"
    /\ Exists(fs, BackupPath(savePath(op'.profile)))
    /\ \/ /\ ret.op = "save" /\ ~ret.result
          /\ savePath(ret.profile) = savePath(op'.profile)
       \/ /\ ret.op = "crash" /\ ret.during.kind = "save"
          /\ savePath(ret.during.profile) = savePath(op'.profile)

\* the profile that was persisted when the unfinished save was called
LastWritten == IF ret.op = "save" THEN ret.old ELSE ret.during.old

(***************************************************************************)
(* C28: stale backup is kept.  When save(P'') is called while a .bak left  *)
(* by an earlier failed or interrupted save still exists, the backup copy  *)
(* does not overwrite it: with no load in between, the .bak keeps the      *)
(* content of the last successfully written profile.                       *)
(***************************************************************************)
C28_StaleBackupKept ==
    [][SaveAfterUnfinishedSave
        => /\ fs'[BackupPath(savePath(op'.profile))] = fs[BackupPath(savePath(op'.profile))]
           /\ LastWritten # NullProfile
                 => Content(fs', BackupPath(savePath(op'.profile))) = LastWritten]_vars

\* the part of the claim that holds: the backup step of a save never
\* changes a backup file that exists, and a save that returns true leaves
\* no backup of its target
C28_BackupUnchanged ==
    /\ [][(op = Idle /\ op'.kind = "save" /\ op'.pc = "backup"
             /\ Exists(fs, BackupPath(savePath(op'.profile))))
            => fs'[BackupPath(savePath(op'.profile))]
                  = fs[BackupPath(savePath(op'.profile))]]_vars
    /\ [][(op.kind = "save" /\ ret'.op = "save" /\ ret'.result)
            => ~Exists(fs', BackupPath(savePath(op.profile)))]_vars

\* a second save of (a, sync) has kept the backup that the interrupted
\* first save made, and the backup holds the content of a/sync.xml, not
\* what sync/a.xml held
C28_KeptForeign ==
    /\ op.kind = "save" /\ op.pc = "backup" /\ nops = 2
    /\ op.profile.name = "a" /\ op.profile.type = TYPE_SYNC
    /\ parseFile(fs, BackupPath(PSyncA))
    /\ fs[BackupPath(PSyncA)].name = "sync" /\ fs[BackupPath(PSyncA)].type = "a"

====
